---- MODULE Spec2Model ----
(***************************************************************************)
(* A model of libo (src/src/libo.c): the in-memory spreadsheet document,   *)
(* the address codec, the shared-string table, the worksheet reader and    *)
(* the container writer.                                                   *)
(*                                                                         *)
(* C strings are sequences of character codes (ASCII), so that the codec   *)
(* is computed on the characters as the code computes it.  The             *)
(* specifications share the variables:                                     *)
(*   SpecCodec     - the address codec applied to bounded inputs;          *)
(*   Spec          - a document built and written through the public API;  *)
(*   SpecWriteFail - the same, written to an archive that may fail;        *)
(*   SpecDup       - objects of the caller handed to the add functions;    *)
(*   SpecCell      - one cell changed by the setters;                      *)
(*   SpecRead      - a worksheet part read into a sheet;                   *)
(*   SpecTraverse  - the accessors on a sheet that was read;               *)
(*   SpecOpen      - libo_open on an archive;                              *)
(*   SpecRoundTrip - a document written and opened again;                  *)
(*   SpecFreeze    - sheets with a freeze, written;                        *)
(*   SpecSheet     - a sheet of the caller added to the workbook;          *)
(*   SpecRewrite   - a document written, grown and written again;          *)
(*   SpecHandle    - the archive handle of a document;                     *)
(*   SpecCreate    - libo_xl_cell_create on a sheet of the caller.         *)
(***************************************************************************)
EXTENDS Integers, Sequences, FiniteSets, TLC

(***************************************************************************)
(* Bounds of the model.                                                    *)
(***************************************************************************)
MaxColumn == 18300
MaxRefLen == 4
MaxNodes == 5
MaxDupCells == 2
MaxDupRows == 2
MaxDupSheets == 2
MaxHeap == 6
MaxXmlNodes == 5

MaxFreeze == 2

MaxFreezeSheets == 2

(* archive handles one document opens *)
MaxHandles == 4

(* the largest row and column index handed to libo_xl_cell_create *)
MaxCreate == 2

VARIABLES
  codec,    \* the address codec: its input, its position and its results
  xlbook,   \* l->xl->book: the sequence of the sheets of the workbook
  strings,  \* l->xl->strings: the string dictionary of the document
  heap,     \* the strings allocated for the formula and value of cells
  disk,     \* the archive left by libo_write and its return value
  ucell,    \* a cell owned by the caller
  urow,     \* a row owned by the caller
  usheet,   \* a sheet owned by the caller
  reader,   \* a worksheet part of an archive and the sheet read from it
  opened,   \* the outcome of libo_open on the archive of disk
  copy,     \* the outcome of libo_dup on the document
  zip,      \* l->z of a document, and every archive handle it has opened
  created   \* the last libo_xl_cell_create on the caller's sheet

vars ==
  <<codec, xlbook, strings, heap, disk, ucell, urow, usheet, reader, opened, copy,
    zip, created>>

(***************************************************************************)
(* Characters and C library functions used by the code.                    *)
(***************************************************************************)
NULL_STR == <<0>>

isalpha(c) == (c >= 65 /\ c <= 90) \/ (c >= 97 /\ c <= 122)

isdigit(c) == c >= 48 /\ c <= 57

isspace(c) == c = 32 \/ (c >= 9 /\ c <= 13)

RECURSIVE SkipSpace(_, _)
SkipSpace(s, i) ==
  IF i <= Len(s) /\ isspace(s[i]) THEN SkipSpace(s, i + 1) ELSE i

RECURSIVE DigitsValue(_, _, _)
DigitsValue(s, i, acc) ==
  IF i <= Len(s) /\ isdigit(s[i])
    THEN DigitsValue(s, i + 1, acc * 10 + (s[i] - 48))
    ELSE acc

atoi(s) ==
  LET i == SkipSpace(s, 1)
      neg == i <= Len(s) /\ s[i] = 45
      j == IF i <= Len(s) /\ (s[i] = 45 \/ s[i] = 43) THEN i + 1 ELSE i
      v == DigitsValue(s, j, 0)
  IN IF neg THEN 0 - v ELSE v

RECURSIVE DigitRun(_, _)
DigitRun(s, i) == IF i <= Len(s) /\ isdigit(s[i]) THEN DigitRun(s, i + 1) ELSE i

RECURSIVE Pow10(_)
Pow10(k) == IF k <= 0 THEN 1 ELSE 10 * Pow10(k - 1)

(* A double is held as its count of halves: 85 is 42.5 and 84 is 42.  The  *)
(* numbers of the model are multiples of 0.5 of small magnitude, which a   *)
(* double holds exactly.  atof reads an optional sign, digits, an optional *)
(* fraction and an optional exponent; what it reads is cut to a half.      *)
atof(s) ==
  LET i == SkipSpace(s, 1)
      neg == i <= Len(s) /\ s[i] = 45
      j == IF i <= Len(s) /\ (s[i] = 45 \/ s[i] = 43) THEN i + 1 ELSE i
      k == DigitRun(s, j)
      f == IF k <= Len(s) /\ s[k] = 46 THEN k + 1 ELSE k
      g == DigitRun(s, f)
      mant == DigitsValue(s, f, DigitsValue(s, j, 0))
      es == IF g + 1 <= Len(s) /\ (s[g + 1] = 45 \/ s[g + 1] = 43)
              THEN g + 2 ELSE g + 1
      hasexp == /\ g > j
                /\ g <= Len(s) /\ (s[g] = 101 \/ s[g] = 69)
                /\ DigitRun(s, es) > es
      ex == IF ~hasexp THEN 0
            ELSE IF s[g + 1] = 45 THEN 0 - DigitsValue(s, es, 0)
            ELSE DigitsValue(s, es, 0)
      e10 == ex - (g - f)
      v == IF e10 >= 0 THEN 2 * mant * Pow10(e10)
           ELSE (2 * mant) \div Pow10(0 - e10)
  IN IF neg THEN 0 - v ELSE v

RECURSIVE NatDigits(_)
NatDigits(k) ==
  IF k < 10 THEN <<48 + k>> ELSE Append(NatDigits(k \div 10), 48 + (k % 10))

itoa(k) == IF k < 0 THEN <<45>> \o NatDigits(0 - k) ELSE NatDigits(k)

RECURSIVE StripZeros(_)
StripZeros(d) ==
  IF d # <<>> /\ d[Len(d)] = 48 THEN StripZeros(SubSeq(d, 1, Len(d) - 1)) ELSE d

(* sig are the significant digits, the first of weight 10^x *)
FixedStyle(sig, x) ==
  IF x < 0
    THEN <<48, 46>> \o [i \in 1..((0 - x) - 1) |-> 48] \o StripZeros(sig)
    ELSE LET whole == [i \in 1..(x + 1) |-> IF i <= Len(sig) THEN sig[i] ELSE 48]
             frac == StripZeros(SubSeq(sig, x + 2, Len(sig)))
         IN IF frac = <<>> THEN whole ELSE whole \o <<46>> \o frac

ExponentStyle(sig, x) ==
  LET frac == StripZeros(SubSeq(sig, 2, Len(sig)))
      mant == IF frac = <<>> THEN <<sig[1]>> ELSE <<sig[1], 46>> \o frac
      ax == IF x < 0 THEN 0 - x ELSE x
  IN mant \o <<101, IF x < 0 THEN 45 ELSE 43>>
          \o (IF ax < 10 THEN <<48>> ELSE <<>>) \o NatDigits(ax)

(* printf's "%g" of the double of m halves, m > 0: six significant digits, *)
(* rounded to nearest (ties to even), in exponent style when the decimal   *)
(* exponent is below -4 or at least 6                                      *)
FormatG(m) ==
  LET tenths == 5 * m
      len == Len(NatDigits(tenths))
      cut == len - 6
      q == IF cut > 0 THEN tenths \div Pow10(cut) ELSE tenths
      r == IF cut > 0 THEN tenths % Pow10(cut) ELSE 0
      up == cut > 0 /\ (2 * r > Pow10(cut) \/ (2 * r = Pow10(cut) /\ q % 2 = 1))
      carry == up /\ q + 1 = 1000000
      sig == NatDigits(IF carry THEN 100000 ELSE IF up THEN q + 1 ELSE q)
      x == (len - 2) + (IF carry THEN 1 ELSE 0)
  IN IF x < 0 - 4 \/ x >= 6 THEN ExponentStyle(sig, x) ELSE FixedStyle(sig, x)

sprintf_g(m) ==
  IF m = 0 THEN <<48>>
  ELSE IF m < 0 THEN <<45>> \o FormatG(0 - m)
  ELSE FormatG(m)

(***************************************************************************)
(* Address codec.                                                          *)
(***************************************************************************)
reverse(s) ==
  IF Len(s) < 2 THEN s ELSE [i \in 1..Len(s) |-> s[Len(s) + 1 - i]]

RECURSIVE ColumnLetters_Positional(_)
ColumnLetters_Positional(m) ==
  LET r == m % 26
      q == m \div 26
  IN IF q = 0 THEN <<65 + r>> ELSE <<65 + r>> \o ColumnLetters_Positional(q)

RECURSIVE ColumnLetters(_)
ColumnLetters(m) ==
  LET r == (m - 1) % 26
      q == (m - 1) \div 26
  IN IF q = 0 THEN <<65 + r>> ELSE <<65 + r>> \o ColumnLetters(q)

(* The parameter is an unsigned int: a negative int k arrives as 2^32 + k, *)
(* and 2^32 = 26 * 165191049 + 22, so the first pass of the loop leaves    *)
(* r = (22 + k) % 26 and n = 165191049 + (22 + k) \div 26.                 *)
column_number_to_reference(k) ==
  IF k >= 0
    THEN reverse(ColumnLetters(k + 1))
    ELSE LET r == (22 + k) % 26
             q == 165191049 + ((22 + k) \div 26)
         IN reverse(<<65 + r>> \o ColumnLetters(q))

RECURSIVE AlphaRun(_, _)
AlphaRun(s, i) ==
  IF i <= Len(s) /\ isalpha(s[i]) THEN AlphaRun(s, i + 1) ELSE i

RECURSIVE Power26(_)
Power26(mag) == IF mag = 0 THEN 1 ELSE 26 * Power26(mag - 1)

RECURSIVE ColumnAccumulate_ZeroDigit(_, _, _, _)
ColumnAccumulate_ZeroDigit(s, p, mag, acc) ==
  IF p >= 1
    THEN ColumnAccumulate_ZeroDigit(s, p - 1, mag + 1,
                                    acc + (s[p] - 65) * Power26(mag))
    ELSE acc

RECURSIVE ColumnAccumulate(_, _, _, _)
ColumnAccumulate(s, p, mag, acc) ==
  IF p >= 1
    THEN ColumnAccumulate(s, p - 1, mag + 1, acc + (s[p] - 65 + 1) * Power26(mag))
    ELSE acc

cell_ref_to_row_col(s) ==
  IF s = NULL_STR
    THEN [row |-> 0, col |-> 0, err |-> "none"]
    ELSE LET p == AlphaRun(s, 1)
         IN [row |-> atoi(SubSeq(s, p, Len(s))) - 1,
             col |-> ColumnAccumulate(s, p - 1, 0, 0) - 1,
             err |-> "none"]

(***************************************************************************)
(* Heap of the C strings owned by Expression cells.  An address is an      *)
(* index of heap, 0 is NULL; frees counts the calls of free() on it.       *)
(***************************************************************************)
strdup(h, text) ==
  [heap |-> Append(h, [text |-> text, frees |-> 0]), addr |-> Len(h) + 1]

free(h, a) == [h EXCEPT ![a].frees = IF @ < 2 THEN @ + 1 ELSE @]

IsLive(h, a) == a \in 1..Len(h) /\ h[a].frees = 0

(* Reading a freed string is undefined: u names what the read finds.       *)
ReadStr(h, a, u) ==
  IF h[a].frees = 0 \/ u = "stale" THEN h[a].text ELSE <<63>>

(***************************************************************************)
(* The string dictionary (libstrings): entries in insertion order, the id  *)
(* of an entry being assigned by strings_add.                              *)
(***************************************************************************)
NoString == [id |-> 0 - 1, text |-> "(absent)"]

strings_new == <<>>

strings_find_by_id(ss, id) ==
  IF \E i \in 1..Len(ss) : ss[i].id = id
    THEN ss[CHOOSE i \in 1..Len(ss) : ss[i].id = id]
    ELSE NoString

strings_find_by_text(ss, text) ==
  IF \E i \in 1..Len(ss) : ss[i].text = text
    THEN ss[CHOOSE i \in 1..Len(ss) : ss[i].text = text]
    ELSE NoString

strings_add(ss, text) ==
  IF \E i \in 1..Len(ss) : ss[i].text = text
    THEN ss
    ELSE Append(ss, [id |-> Len(ss), text |-> text])

(***************************************************************************)
(* Cells.  The payload is a C union: clearing it zeroes every member.      *)
(***************************************************************************)
libo_xl_cell_new ==
  [type |-> "none", reference |-> 0, formula |-> 0, value |-> 0, number |-> 0]

libo_xl_cell_set_type(h, c, type) ==
  LET h1 == IF c.type = "expression" /\ c.formula # 0 THEN free(h, c.formula) ELSE h
      h2 == IF c.type = "expression" /\ c.value # 0 THEN free(h1, c.value) ELSE h1
  IN [heap |-> h2,
      cell |-> [libo_xl_cell_new EXCEPT !.type = type]]

(* libo_xl_cell_clear without its memset: the members keep the addresses    *)
(* of the strings just freed                                               *)
libo_xl_cell_clear_KeepPointers(h, c) ==
  IF c.type = "expression"
    THEN LET h1 == IF c.value # 0 THEN free(h, c.value) ELSE h
             h2 == IF c.formula # 0 THEN free(h1, c.formula) ELSE h1
         IN libo_xl_cell_set_type(h2, c, "none")
    ELSE libo_xl_cell_set_type(h, [c EXCEPT !.reference = 0], "none")

libo_xl_cell_clear(h, c) ==
  IF c.type = "expression"
    THEN LET h1 == IF c.value # 0 THEN free(h, c.value) ELSE h
             h2 == IF c.formula # 0 THEN free(h1, c.formula) ELSE h1
         IN libo_xl_cell_set_type(h2, [c EXCEPT !.formula = 0, !.value = 0], "none")
    ELSE libo_xl_cell_set_type(h, [c EXCEPT !.reference = 0], "none")

libo_xl_cell_set_reference(c, reference) ==
  IF c.type # "reference" THEN c ELSE [c EXCEPT !.reference = reference]

libo_xl_cell_get_text(ss, c) ==
  IF c.type # "reference" THEN NoString.text
  ELSE strings_find_by_id(ss, c.reference).text

(***************************************************************************)
(* Accessors.  A pointer argument or result is NullPtr or Ptr(x), x the    *)
(* object pointed to; a string result is an address of the heap, 0 for     *)
(* NULL.                                                                   *)
(***************************************************************************)
NullPtr == [null |-> TRUE]

Ptr(x) == [null |-> FALSE, at |-> x]

libo_xl_book_get_sheet(xlb, n) ==
  IF xlb.null THEN NullPtr
  ELSE IF n < 0 THEN NullPtr
  ELSE IF n >= Len(xlb.at) THEN NullPtr
  ELSE Ptr(xlb.at[n + 1])

libo_xl_sheet_get_row(xls, n) ==
  IF xls.null THEN NullPtr
  ELSE IF n < 0 THEN NullPtr
  ELSE IF n >= Len(xls.at.row) THEN NullPtr
  ELSE Ptr(xls.at.row[n + 1])

libo_xl_sheet_get_column_count(xls) == IF xls.null THEN 0 ELSE xls.at.n_cols

libo_xl_row_get_cell_count(xlr) == IF xlr.null THEN 0 ELSE Len(xlr.at)

libo_xl_row_get_cell(xlr, n) ==
  IF xlr.null THEN NullPtr
  ELSE IF n < 0 THEN NullPtr
  ELSE IF n >= Len(xlr.at) THEN NullPtr
  ELSE Ptr(xlr.at[n + 1])

libo_xl_cell_get_type(xlc) == IF xlc.null THEN "none" ELSE xlc.at.type

libo_xl_cell_get_reference(xlc) ==
  IF xlc.null THEN 0
  ELSE IF xlc.at.type # "reference" THEN 0
  ELSE xlc.at.reference

libo_xl_cell_get_number(xlc) ==
  IF xlc.null THEN 0
  ELSE IF xlc.at.type # "number" THEN 0
  ELSE xlc.at.number

libo_xl_cell_get_expression(xlc) ==
  IF xlc.null THEN NullPtr
  ELSE IF xlc.at.type # "expression" THEN NullPtr
  ELSE Ptr([formula |-> xlc.at.formula, value |-> xlc.at.value])

libo_xl_cell_expression_get_formula(xlce) == IF xlce.null THEN 0 ELSE xlce.at.formula

libo_xl_cell_expression_get_value(xlce) == IF xlce.null THEN 0 ELSE xlce.at.value

(* What a string function hands back: the program faulted, or NULL, or a   *)
(* text.                                                                   *)
Faulted == [fault |-> TRUE]

NullText == [fault |-> FALSE, null |-> TRUE]

Text(text) == [fault |-> FALSE, null |-> FALSE, text |-> text]

(* strdup(NULL) is undefined: nulldup names what it does, "fault" for the  *)
(* read through the null pointer, "null" for a library that hands back     *)
(* NULL.  The copy of a live string is its text.                           *)
StrdupOf(h, a, nulldup, u) ==
  IF a = 0 THEN (IF nulldup = "fault" THEN Faulted ELSE NullText)
  ELSE Text(ReadStr(h, a, u))

(* the expression case of libo_xl_cell_get_string_value: the formula, else *)
(* the value, else ""                                                      *)
ExpressionStringValue(f, v) ==
  IF f.fault THEN f
  ELSE IF ~f.null THEN f
  ELSE IF v.fault THEN v
  ELSE IF ~v.null THEN v
  ELSE Text(<<>>)

libo_xl_cell_get_string_value(h, ss, xlc, nulldup, u) ==
  IF xlc.null THEN NullText
  ELSE IF libo_xl_cell_get_type(xlc) = "reference"
    THEN (IF libo_xl_cell_get_text(ss, xlc.at) = NoString.text
            THEN NullText ELSE Text(libo_xl_cell_get_text(ss, xlc.at)))
  ELSE IF libo_xl_cell_get_type(xlc) = "expression"
    THEN ExpressionStringValue(
           StrdupOf(h, libo_xl_cell_expression_get_formula(
                         libo_xl_cell_get_expression(xlc)), nulldup, u),
           StrdupOf(h, libo_xl_cell_expression_get_value(
                         libo_xl_cell_get_expression(xlc)), nulldup, u))
  ELSE IF libo_xl_cell_get_type(xlc) = "number"
    THEN Text(sprintf_g(libo_xl_cell_get_number(xlc)))
  ELSE NullText

libo_xl_cell_set_text_NoLookup(h, ss, c, text) ==
  LET a == libo_xl_cell_clear(h, c)
      b == libo_xl_cell_set_type(a.heap, a.cell, "reference")
      ss1 == strings_add(ss, text)
  IN [heap |-> b.heap, strings |-> ss1,
      cell |-> libo_xl_cell_set_reference(b.cell, Len(ss1) - 1)]

libo_xl_cell_set_text(h, ss, c, text) ==
  LET a == libo_xl_cell_clear(h, c)
      b == libo_xl_cell_set_type(a.heap, a.cell, "reference")
      ss1 == IF strings_find_by_text(ss, text) = NoString
               THEN strings_add(ss, text) ELSE ss
      str == strings_find_by_text(ss1, text)
  IN [heap |-> b.heap, strings |-> ss1,
      cell |-> IF str # NoString
                 THEN libo_xl_cell_set_reference(b.cell, str.id) ELSE b.cell]

libo_xl_cell_set_number(h, c, number) ==
  LET a == libo_xl_cell_clear(h, c)
      b == libo_xl_cell_set_type(a.heap, a.cell, "number")
  IN [heap |-> b.heap, cell |-> [b.cell EXCEPT !.number = number]]

libo_xl_cell_expression_set_formula(h, c, text) ==
  LET r == strdup(h, text)
  IN [heap |-> IF c.formula # 0 THEN free(r.heap, c.formula) ELSE r.heap,
      cell |-> [c EXCEPT !.formula = r.addr]]

libo_xl_cell_expression_set_value(h, c, text) ==
  LET r == strdup(h, text)
  IN [heap |-> IF c.value # 0 THEN free(r.heap, c.value) ELSE r.heap,
      cell |-> [c EXCEPT !.value = r.addr]]

(* formula and value are the members of the caller's xlce *)
libo_xl_cell_set_expression(h, c, formula, value) ==
  LET a == libo_xl_cell_clear(h, c)
      b == libo_xl_cell_set_type(a.heap, a.cell, "expression")
      f == IF formula # NULL_STR
             THEN libo_xl_cell_expression_set_formula(b.heap, b.cell, formula)
             ELSE b
  IN IF value # NULL_STR
       THEN libo_xl_cell_expression_set_value(f.heap, f.cell, value)
       ELSE f

(***************************************************************************)
(* Rows, sheets and the workbook.  A row is the sequence of its cells, a   *)
(* workbook the sequence of its sheets; n_rows, n_cells and n_sheets are   *)
(* the lengths.  The dup functions write to their argument as well, so     *)
(* each returns the argument as it is left (orig) beside the copy.         *)
(***************************************************************************)
(* ncell is the memcpy of cell; the two set calls are made on cell *)
CellDupResult(c, v) == [heap |-> v.heap, orig |-> v.cell, copy |-> c]

CellDupValue(c, f, u) ==
  CellDupResult(c,
    IF c.type = "expression" /\ c.value # 0
      THEN libo_xl_cell_expression_set_value(f.heap, f.cell,
                                             ReadStr(f.heap, c.value, u))
      ELSE f)

libo_xl_cell_dup(h, c, u) ==
  CellDupValue(c,
    IF c.type = "expression" /\ c.formula # 0
      THEN libo_xl_cell_expression_set_formula(h, c, ReadStr(h, c.formula, u))
      ELSE [heap |-> h, cell |-> c],
    u)

libo_xl_row_new == <<>>

RowAddResult(xlr, d) ==
  [heap |-> d.heap, row |-> Append(xlr, d.copy), orig |-> d.orig]

libo_xl_row_add(h, xlr, xlc, u) == RowAddResult(xlr, libo_xl_cell_dup(h, xlc, u))

RECURSIVE RowDupLoop(_, _, _, _, _)
RowDupStep(row, i, a, u) ==
  RowDupLoop(a.heap, [row EXCEPT ![i] = a.orig], i + 1, a.row, u)

RowDupLoop(h, row, i, nrow, u) ==
  IF i > Len(row)
    THEN [heap |-> h, orig |-> row, copy |-> nrow]
    ELSE RowDupStep(row, i, libo_xl_row_add(h, nrow, row[i], u), u)

libo_xl_row_dup(h, row, u) == RowDupLoop(h, row, 1, libo_xl_row_new, u)

NULL_NAME == "(null)"

NoFreeze == [type |-> "none", n |-> 0]

(* column is the array of the column attributes, filter the filter: each a *)
(* pointer, NULL in a new sheet                                            *)
libo_xl_sheet_new ==
  [name |-> NULL_NAME, ID |-> 0, rID |-> NULL_STR, n_cols |-> 0, row |-> <<>>,
   freeze |-> NoFreeze, column |-> NullPtr, filter |-> NullPtr]

libo_xl_sheet_set_freeze(sheet, type, n) ==
  [sheet EXCEPT !.freeze = [type |-> type, n |-> n]]

libo_xl_filter_new_with_values(first_column, last_column) ==
  Ptr([first_column |-> first_column, last_column |-> last_column])

libo_xl_sheet_add_filter(sheet, first_column, last_column) ==
  [sheet EXCEPT !.filter = libo_xl_filter_new_with_values(first_column, last_column)]

libo_xl_sheet_remove_filter(sheet) == [sheet EXCEPT !.filter = NullPtr]

libo_xl_column_new_with_values(width, autowidth) ==
  [width |-> width, autowidth |-> autowidth]

(* realloc(NULL, 0) for a sheet without columns gives NULL or a block of   *)
(* no element, as the C library chooses: malloc0                           *)
libo_xl_sheet_columns_create_defaults(sheet, malloc0) ==
  IF sheet.n_cols = 0 /\ malloc0 = "null" THEN NullPtr
  ELSE Ptr([i \in 1..sheet.n_cols |-> libo_xl_column_new_with_values(15, 1)])

SheetAddResult(xls, d) ==
  [heap |-> d.heap, sheet |-> [xls EXCEPT !.row = Append(@, d.copy)],
   orig |-> d.orig]

libo_xl_sheet_add(h, xls, xlr, u) ==
  SheetAddResult(xls, libo_xl_row_dup(h, xlr, u))

RECURSIVE SheetDupLoop(_, _, _, _, _)
SheetDupStep(sheet, i, a, u) ==
  SheetDupLoop(a.heap, [sheet EXCEPT !.row[i] = a.orig], i + 1, a.sheet, u)

SheetDupLoop(h, sheet, i, nsheet, u) ==
  IF i > Len(sheet.row)
    THEN [heap |-> h, orig |-> sheet, copy |-> nsheet]
    ELSE SheetDupStep(sheet, i, libo_xl_sheet_add(h, nsheet, sheet.row[i], u), u)

libo_xl_sheet_dup(h, sheet, u) ==
  SheetDupLoop(h, sheet, 1,
               [libo_xl_sheet_new EXCEPT !.n_cols = sheet.n_cols,
                                         !.name = sheet.name], u)

RId(k) == <<114, 73, 100>> \o itoa(k)

BookAddResult_FromOne(xlb, d) ==
  [heap |-> d.heap,
   book |-> Append(xlb, [d.copy EXCEPT !.ID = Len(xlb) + 1,
                                       !.rID = RId(Len(xlb) + 1)]),
   orig |-> d.orig]

BookAddResult(xlb, d) ==
  [heap |-> d.heap,
   book |-> Append(xlb, [d.copy EXCEPT !.ID = Len(xlb) + 1,
                                       !.rID = RId(Len(xlb) + 4)]),
   orig |-> d.orig]

libo_xl_book_add(h, xlb, xls, u) ==
  BookAddResult(xlb, libo_xl_sheet_dup(h, xls, u))

(* An element of the sheet array that realloc handed out and nothing was   *)
(* stored in: a pointer of no known value.                                 *)
UninitSheet == [uninit |-> TRUE]

(* libo_xl_book_dup sets n_sheets of the new workbook to that of book      *)
(* before it adds the sheets, so each libo_xl_book_add stores its sheet    *)
(* after n_sheets elements that are never assigned.                        *)
RECURSIVE BookDupLoop(_, _, _, _, _)
BookDupStep(book, i, a, u) ==
  BookDupLoop(a.heap, [book EXCEPT ![i] = a.orig], i + 1, a.book, u)

BookDupLoop(h, book, i, nbook, u) ==
  IF i > Len(book)
    THEN [heap |-> h, orig |-> book, copy |-> nbook]
    ELSE BookDupStep(book, i, libo_xl_book_add(h, nbook, book[i], u), u)

libo_xl_book_dup(h, book, u) ==
  BookDupLoop(h, book, 1, [i \in 1..Len(book) |-> UninitSheet], u)

(* strings_dup copies the dictionary entry by entry *)
strings_dup(ss) == [i \in 1..Len(ss) |-> [id |-> ss[i].id, text |-> ss[i].text]]

XlDupResult(b, ss) ==
  [heap |-> b.heap, orig |-> b.orig, book |-> b.copy, strings |-> strings_dup(ss)]

libo_xl_dup(h, book, ss, u) == XlDupResult(libo_xl_book_dup(h, book, u), ss)

(* the copy of a spreadsheet document: its type, its l->z and its xl *)
DupResult(xl) ==
  [heap |-> xl.heap, orig |-> xl.orig,
   copy |-> [pc |-> "copied", type |-> "xl", z |-> 0, book |-> xl.book,
             strings |-> xl.strings]]

libo_dup(h, book, ss, u) == DupResult(libo_xl_dup(h, book, ss, u))

(***************************************************************************)
(* Shared-string renumbering.                                              *)
(***************************************************************************)
(* the positions <<sheet, row, cell>> of a workbook in document order *)
RECURSIVE CellPositions(_, _, _, _)
CellPositions(book, i, j, k) ==
  IF i > Len(book) THEN <<>>
  ELSE IF j > Len(book[i].row) THEN CellPositions(book, i + 1, 1, 1)
  ELSE IF k > Len(book[i].row[j]) THEN CellPositions(book, i, j + 1, 1)
  ELSE <<(<<i, j, k>>)>> \o CellPositions(book, i, j, k + 1)

RenumberCell(old, st, pos) ==
  LET cell == st.book[pos[1]].row[pos[2]][pos[3]]
      found == strings_find_by_id(old, cell.reference)
      fresh == IF found # NoString
                 THEN strings_find_by_text(st.strings, found.text)
                 ELSE NoString
  IN IF cell.type # "reference" THEN st
     ELSE IF fresh # NoString
       THEN [st EXCEPT !.strings = strings_add(@, fresh.text),
                       !.book[pos[1]].row[pos[2]][pos[3]].reference = fresh.id]
       ELSE [st EXCEPT !.strings = IF found # NoString
                                     THEN strings_add(@, found.text) ELSE @,
                       !.book[pos[1]].row[pos[2]][pos[3]].reference = st.new_id,
                       !.new_id = @ + 1]

RECURSIVE RenumberLoop(_, _, _, _)
RenumberLoop(old, st, ps, n) ==
  IF n > Len(ps) THEN st
  ELSE RenumberLoop(old, RenumberCell(old, st, ps[n]), ps, n + 1)

libo_xl_renumber_strings(book, ss) ==
  LET st == RenumberLoop(ss, [book |-> book, strings |-> strings_new, new_id |-> 0],
                         CellPositions(book, 1, 1, 1), 1)
  IN [book |-> st.book, strings |-> st.strings]

(***************************************************************************)
(* The writer.  An archive is the sequence of the entries added to it, in  *)
(* the order of the zip_file_add calls; fail is the set of entry names     *)
(* whose zip_file_add fails.  Numbers are formatted with "%d".  An entry   *)
(* carries wf, whether its text is a well-formed XML document.             *)
(*                                                                         *)
(* ub is what the C library leaves open during one write.  moved: realloc   *)
(* gives strapp(buf, "</sst>") another block than buf, and the writer of   *)
(* the shared strings drops strapp's result and goes on with buf.          *)
(* malloc0: what realloc(NULL, 0) returns.  oob: what reading an element   *)
(* beyond the end of the column array does, a fault or a value of no       *)
(* meaning.                                                                *)
(***************************************************************************)
UbChoices ==
  [moved : BOOLEAN, malloc0 : {"null", "block"}, oob : {"fault", "garbage"}]

Part(prefix, k, suffix) == [prefix |-> prefix, num |-> itoa(k), suffix |-> suffix]

Fixed(name) == [prefix |-> name, num |-> <<>>, suffix |-> ""]

EmitText(a, name, body, wf, fail) ==
  IF name \in fail
    THEN [archive |-> a, ok |-> FALSE]
    ELSE [archive |-> Append(a, [name |-> name, body |-> body, wf |-> wf]),
          ok |-> TRUE]

(* a part whose text is well formed however it is put together *)
Emit(a, name, body, fail) == EmitText(a, name, body, TRUE, fail)

libo_xl_content_types_write(book, a, fail) ==
  Emit(a, Fixed("[Content_Types].xml"),
       [overrides |->
          <<Fixed("/xl/workbook.xml")>>
          \o [i \in 1..Len(book) |-> Part("/xl/worksheets/sheet", (i - 1) + 1, ".xml")]
          \o <<Fixed("/xl/theme/theme1.xml"), Fixed("/xl/styles.xml"),
               Fixed("/xl/sharedStrings.xml"), Fixed("/docProps/core.xml"),
               Fixed("/docProps/app.xml")>>],
       fail)

Application == "Microsoft Excel"

libo_xl_docprops_app_write(book, a, fail) ==
  Emit(a, Fixed("docProps/app.xml"),
       [Application |-> Application,
        n_sheets |-> itoa(Len(book)),
        titles |-> [i \in 1..Len(book) |-> book[i].name]],
       fail)

libo_xl_docprops_core_write(a, fail) ==
  Emit(a, Fixed("docProps/core.xml"), [core |-> TRUE], fail)

DocpropsCore(app, fail) ==
  IF ~app.ok THEN app ELSE libo_xl_docprops_core_write(app.archive, fail)

libo_xl_docprops_write(book, a, fail) ==
  DocpropsCore(libo_xl_docprops_app_write(book, a, fail), fail)

libo_xl__rels_dot_rels_write(a, fail) ==
  Emit(a, Fixed("_rels/.rels"),
       [rels |-> <<[Id |-> RId(1), Target |-> Fixed("xl/workbook.xml")],
                   [Id |-> RId(2), Target |-> Fixed("docProps/core.xml")],
                   [Id |-> RId(3), Target |-> Fixed("docProps/app.xml")]>>],
       fail)

libo_xl_xl_rels_workbook_rels_write(book, a, fail) ==
  Emit(a, Fixed("xl/_rels/workbook.xml.rels"),
       [rels |-> <<[Id |-> RId(1), Target |-> Fixed("theme/theme1.xml")],
                   [Id |-> RId(2), Target |-> Fixed("styles.xml")],
                   [Id |-> RId(3), Target |-> Fixed("sharedStrings.xml")]>>
                 \o [i \in 1..Len(book) |->
                       [Id |-> RId((i - 1) + 4),
                        Target |-> Part("worksheets/sheet", (i - 1) + 1, ".xml")]]],
       fail)

libo_xl_themes_write(a, fail) ==
  Emit(a, Fixed("xl/theme/theme1.xml"), [theme |-> TRUE], fail)

libo_xl_styles_write(a, fail) ==
  Emit(a, Fixed("xl/styles.xml"), [styles |-> TRUE], fail)

libo_xl_workbook_write_StoredIds(book, a, fail) ==
  Emit(a, Fixed("xl/workbook.xml"),
       [sheets |-> [i \in 1..Len(book) |->
                     [name |-> book[i].name,
                      sheetId |-> itoa(book[i].ID),
                      rid |-> RId(book[i].ID)]]],
       fail)

libo_xl_workbook_write(book, a, fail) ==
  Emit(a, Fixed("xl/workbook.xml"),
       [sheets |-> [i \in 1..Len(book) |->
                     [name |-> book[i].name,
                      sheetId |-> itoa((i - 1) + 1),
                      rid |-> RId((i - 1) + 4)]]],
       fail)

RECURSIVE WidestRow(_, _)
WidestRow(rows, i) ==
  IF i > Len(rows) THEN 0
  ELSE LET m == WidestRow(rows, i + 1)
       IN IF Len(rows[i]) > m THEN Len(rows[i]) ELSE m

libo_xl_sheet_count_columns(xls) == [xls EXCEPT !.n_cols = WidestRow(xls.row, 1)]

libo_xl_sheet_sheetviews_add_AnchorAtCount(sht) ==
  IF sht.freeze.type = "none" THEN <<>>
  ELSE <<[split |-> IF sht.freeze.type = "top" THEN "ySplit" ELSE "",
          count |-> <<49>>,
          topLeftCell |-> IF sht.freeze.type = "top"
                            THEN <<65>> \o itoa(sht.freeze.n) ELSE <<>>,
          activePane |-> IF sht.freeze.type = "top" THEN "bottomLeft" ELSE "",
          selection |-> IF sht.freeze.type = "top" THEN "bottomLeft" ELSE ""]>>

(* The sheetViews block: nothing for a sheet without freeze, else one pane *)
(* whose attribute name, anchor and pane names are appended by the cases   *)
(* of the freeze type; the case of left breaks before it appends.          *)
libo_xl_sheet_sheetviews_add(sht) ==
  IF sht.freeze.type = "none" THEN <<>>
  ELSE <<[split |-> IF sht.freeze.type = "top" THEN "ySplit" ELSE "",
          count |-> <<49>>,
          topLeftCell |-> IF sht.freeze.type = "top"
                            THEN <<65>> \o itoa(sht.freeze.n + 1) ELSE <<>>,
          activePane |-> IF sht.freeze.type = "top" THEN "bottomLeft" ELSE "",
          selection |-> IF sht.freeze.type = "top" THEN "bottomLeft" ELSE ""]>>

(* what is written for an element of the column array that does not exist *)
OobColumn == [oob |-> TRUE]

(* sprintf(number, "%f", width) of a width that is a whole number *)
sprintf_f(w) == itoa(w) \o <<46, 48, 48, 48, 48, 48, 48>>

(* The cols block: none when the sheet has no column array, else one col   *)
(* for each i below n_cols, from sht->column[i].                           *)
libo_xl_sheet_cols_add(sht) ==
  IF sht.column.null THEN [block |-> FALSE, col |-> <<>>]
  ELSE [block |-> TRUE,
        col |-> [i \in 1..sht.n_cols |->
                  IF i <= Len(sht.column.at)
                    THEN [oob |-> FALSE, min |-> itoa(i), max |-> itoa(i),
                          width |-> sprintf_f(sht.column.at[i].width),
                          bestfit |-> IF sht.column.at[i].autowidth # 0
                                        THEN <<49>> ELSE <<48>>]
                    ELSE OobColumn]]

(* The autoFilter block: none without a filter, else the range from row 1  *)
(* of the first column to row n_rows of the last, and a sortState from     *)
(* row 2.                                                                  *)
libo_xl_sheet_filter_add(sht) ==
  IF sht.filter.null THEN <<>>
  ELSE <<[ref |-> column_number_to_reference(sht.filter.at.first_column) \o <<49, 58>>
                    \o column_number_to_reference(sht.filter.at.last_column)
                    \o itoa(Len(sht.row)),
          sortState |-> column_number_to_reference(sht.filter.at.first_column)
                          \o <<50, 58>>
                          \o column_number_to_reference(sht.filter.at.last_column)
                          \o itoa(Len(sht.row))]>>

(* the white space the writer puts after a tag, a text node to the parser *)
TextNode ==
  [name |-> "text", r |-> NULL_STR, t |-> NULL_STR, v |-> NULL_STR, f |-> NULL_STR]

(* row and col are the zero-based indexes the code passes *)
libo_xl_sheet_sheetdata_row_col_add(sht, row, col) ==
  IF row >= Len(sht.row) \/ col >= sht.n_cols THEN <<>>
  ELSE <<[name |-> "c",
          r |-> column_number_to_reference(col) \o itoa(row + 1),
          t |-> IF sht.row[row + 1][col + 1].type = "reference"
                  THEN <<115>> ELSE NULL_STR,
          v |-> IF sht.row[row + 1][col + 1].type = "reference"
                  THEN itoa(sht.row[row + 1][col + 1].reference)
                ELSE IF sht.row[row + 1][col + 1].type = "number"
                  THEN sprintf_g(sht.row[row + 1][col + 1].number)
                ELSE <<>>,
          f |-> NULL_STR],
         TextNode>>

RECURSIVE RowColLoop(_, _, _)
RowColLoop(sht, row, i) ==
  IF i >= Len(sht.row[row + 1]) THEN <<>>
  ELSE libo_xl_sheet_sheetdata_row_col_add(sht, row, i) \o RowColLoop(sht, row, i + 1)

libo_xl_sheet_sheetdata_row_add(sht, row) ==
  [spans |-> <<49, 58>> \o itoa(sht.n_cols),
   children |-> <<TextNode>> \o RowColLoop(sht, row, 0)]

libo_xl_sheet_sheetdata_add(sht) ==
  [rows |-> [i \in 1..Len(sht.row) |-> libo_xl_sheet_sheetdata_row_add(sht, i - 1)],
   others |-> 0]

(* The start tag of a c element gets its closing quote and bracket in the  *)
(* cases of reference and number only, and the pane of a left freeze has   *)
(* an attribute without a name: the text is XML only without such cells    *)
(* and such a pane.                                                        *)
SheetTextWellFormed(sht) ==
  /\ sht.freeze.type \in {"none", "top"}
  /\ \A i \in 1..Len(sht.row) : \A k \in 1..Len(sht.row[i]) :
       k <= sht.n_cols => sht.row[i][k].type \in {"reference", "number"}

SheetWriteResult(book, sheet, sht, e) ==
  [book |-> [book EXCEPT ![sheet + 1] = sht], archive |-> e.archive, ok |-> e.ok]

SheetEmit(book, sheet, sht, a, fail) ==
  SheetWriteResult(book, sheet, sht,
    EmitText(a, Part("xl/worksheets/sheet", sheet + 1, ".xml"),
             [sheet |-> sheet, n_rows |-> Len(sht.row), n_cols |-> sht.n_cols,
              views |-> libo_xl_sheet_sheetviews_add(sht),
              cols |-> libo_xl_sheet_cols_add(sht),
              xml |-> libo_xl_sheet_sheetdata_add(sht),
              filter |-> libo_xl_sheet_filter_add(sht)],
             SheetTextWellFormed(sht), fail))

(* the column array is made only when the sheet has none *)
SheetColumns(sht, malloc0) ==
  IF sht.column.null
    THEN [sht EXCEPT !.column = libo_xl_sheet_columns_create_defaults(sht, malloc0)]
    ELSE sht

(* sheet is the zero-based index the code passes *)
libo_xl_sheet_write(book, sheet, a, fail, ub) ==
  SheetEmit(book, sheet,
            SheetColumns(libo_xl_sheet_count_columns(book[sheet + 1]), ub.malloc0),
            a, fail)

RECURSIVE SheetsWriteLoop(_, _, _, _, _)
SheetsWriteStep(w, i, fail, ub) ==
  IF ~w.ok THEN w ELSE SheetsWriteLoop(w.book, i + 1, w.archive, fail, ub)

SheetsWriteLoop(book, i, a, fail, ub) ==
  IF i >= Len(book) THEN [book |-> book, archive |-> a, ok |-> TRUE]
  ELSE SheetsWriteStep(libo_xl_sheet_write(book, i, a, fail, ub), i, fail, ub)

SheetsWriteResult(r, w) ==
  [book |-> w.book, strings |-> r.strings, archive |-> w.archive, ok |-> w.ok]

SheetsWriteRenumbered(r, a, fail, ub) ==
  SheetsWriteResult(r, SheetsWriteLoop(r.book, 0, a, fail, ub))

libo_xl_sheets_write(book, ss, a, fail, ub) ==
  SheetsWriteRenumbered(libo_xl_renumber_strings(book, ss), a, fail, ub)

(* the entries of a dictionary in id order (strings_walk by string_id) *)
RECURSIVE InIdOrder(_)
InIdOrder(ss) ==
  IF ss = <<>> THEN <<>>
  ELSE LET m == CHOOSE i \in 1..Len(ss) : \A j \in 1..Len(ss) : ss[i].id <= ss[j].id
       IN <<ss[m]>> \o InIdOrder([i \in 1..(Len(ss) - 1) |->
                                    IF i < m THEN ss[i] ELSE ss[i + 1]])

(* the end tag of sst is in the text that is added only when the last      *)
(* strapp did not move the buffer                                          *)
libo_xl_shared_strings_write(ss, a, fail, ub) ==
  EmitText(a, Fixed("xl/sharedStrings.xml"),
       [count |-> itoa(Len(ss)), uniqueCount |-> itoa(Len(ss)),
        si |-> [i \in 1..Len(ss) |-> InIdOrder(ss)[i].text]],
       ~ub.moved, fail)

(* the steps after the sheets, with what the sheets left *)
XlWriteTail(s8, fail, ub) ==
  [book |-> s8.book, strings |-> s8.strings,
   archive |-> libo_xl_shared_strings_write(s8.strings, s8.archive, fail, ub).archive,
   ret |-> 0]

libo_xl_write(book, ss, fail, ub) ==
  LET s1 == libo_xl_content_types_write(book, <<>>, fail)
      s2 == libo_xl_docprops_write(book, s1.archive, fail)
      s3 == libo_xl__rels_dot_rels_write(s2.archive, fail)
      s4 == libo_xl_xl_rels_workbook_rels_write(book, s3.archive, fail)
      s5 == libo_xl_themes_write(s4.archive, fail)
      s6 == libo_xl_styles_write(s5.archive, fail)
      s7 == libo_xl_workbook_write(book, s6.archive, fail)
  IN XlWriteTail(libo_xl_sheets_write(book, ss, s7.archive, fail, ub), fail, ub)

(* open_ok is the outcome of zip_open *)
libo_write(book, ss, open_ok, fail, ub) ==
  IF ~open_ok
    THEN [book |-> book, strings |-> ss, archive |-> <<>>, ret |-> 0 - 1]
    ELSE libo_xl_write(book, ss, fail, ub)

(***************************************************************************)
(* The worksheet reader.  The sheetData element of a worksheet part is the *)
(* sequence of its row elements; a row element has a spans attribute       *)
(* (NULL_STR when absent) and the sequence of its child nodes; a child is  *)
(* a c element with its r and t attributes (NULL_STR when absent) and the  *)
(* text of its v and f children, or a node of another name.                *)
(***************************************************************************)
RECURSIVE IndexOfColon(_, _)
IndexOfColon(s, i) ==
  IF i > Len(s) THEN 0 ELSE IF s[i] = 58 THEN i ELSE IndexOfColon(s, i + 1)

(* rows are the row elements of sheetData *)
count_sheet_columns_in_xml(rows) ==
  IF rows = <<>> \/ rows[1].spans = NULL_STR \/ IndexOfColon(rows[1].spans, 1) = 0
    THEN 0
    ELSE atoi(SubSeq(rows[1].spans, IndexOfColon(rows[1].spans, 1) + 1,
                     Len(rows[1].spans)))

(* others is the number of element children of sheetData that are no row *)
count_sheet_rows_in_xml(rows, others) == Len(rows) + others

string_to_libo_xl_cell_type(t) ==
  IF t = NULL_STR THEN "none"
  ELSE IF t = <<115>> THEN "reference"
  ELSE IF t = <<101>> THEN "expression"
  ELSE "none"

(* The state of the loop over the children of one row: the cells of the    *)
(* row, the fill cursor j, the heap, and oob, set by an access to          *)
(* row->cell[j] with j outside 0..n_cols-1, which is dropped here.         *)
BackfillCell(st) ==
  IF st.j >= 0 /\ st.j < Len(st.cells)
    THEN [st EXCEPT !.cells[st.j + 1] =
                       [@ EXCEPT !.type = "expression", !.value = Len(st.heap) + 1],
                    !.heap = Append(@, [text |-> <<>>, frees |-> 0]),
                    !.j = @ + 1]
    ELSE [st EXCEPT !.oob = TRUE, !.j = @ + 1]

RECURSIVE BackfillTo(_, _)
BackfillTo(st, c) == IF st.j < c THEN BackfillTo(BackfillCell(st), c) ELSE st

ReadPayload(cl, h, node) ==
  LET type == IF node.t # NULL_STR
                THEN string_to_libo_xl_cell_type(node.t) ELSE "number"
  IN IF type = "reference"
       THEN [cell |-> [cl EXCEPT !.type = type,
                                 !.reference = IF node.v = NULL_STR THEN @
                                               ELSE atoi(node.v)],
             heap |-> h]
     ELSE IF type = "number"
       THEN [cell |-> [cl EXCEPT !.type = type,
                                 !.number = IF node.v = NULL_STR THEN @
                                            ELSE atof(node.v)],
             heap |-> h]
     ELSE IF type = "expression"
       THEN LET hf == IF node.f = NULL_STR THEN h
                      ELSE Append(h, [text |-> node.f, frees |-> 0])
                hv == IF node.v = NULL_STR THEN hf
                      ELSE Append(hf, [text |-> node.v, frees |-> 0])
            IN [cell |-> [cl EXCEPT !.type = type,
                                    !.formula = IF node.f = NULL_STR THEN @
                                                ELSE Len(h) + 1,
                                    !.value = IF node.v = NULL_STR THEN @
                                              ELSE Len(hf) + 1],
                heap |-> hv]
     ELSE [cell |-> [cl EXCEPT !.type = type], heap |-> h]

StoreCellAt(st, r) ==
  [st EXCEPT !.cells[st.j + 1] = r.cell, !.heap = r.heap, !.j = @ + 1]

StoreCell(st, node) ==
  IF st.j >= 0 /\ st.j < Len(st.cells)
    THEN StoreCellAt(st, ReadPayload(st.cells[st.j + 1], st.heap, node))
    ELSE [st EXCEPT !.oob = TRUE, !.j = @ + 1]

ReadChild(st, node) ==
  IF node.name = "c"
    THEN StoreCell(BackfillTo(st, cell_ref_to_row_col(node.r).col), node)
    ELSE [st EXCEPT !.j = @ + 1]

RECURSIVE ReadChildren(_, _, _)
ReadChildren(st, children, n) ==
  IF n <= Len(children) /\ st.j < Len(st.cells)
    THEN ReadChildren(ReadChild(st, children[n]), children, n + 1)
    ELSE st

ReadRow(h, node, n_cols) ==
  BackfillTo(ReadChildren([cells |-> [c \in 1..n_cols |-> libo_xl_cell_new],
                           j |-> 0, heap |-> h, oob |-> FALSE],
                          node.children, 1),
             n_cols)

RECURSIVE ReadRows(_, _, _, _)
ReadRowsStep(acc, r, nodes, i, n_cols) ==
  ReadRows([row |-> Append(acc.row, r.cells), heap |-> r.heap,
            oob |-> acc.oob \/ r.oob], nodes, i + 1, n_cols)

ReadRows(acc, nodes, i, n_cols) ==
  IF i > Len(nodes) THEN acc
  ELSE ReadRowsStep(acc, ReadRow(acc.heap, nodes[i], n_cols), nodes, i, n_cols)

libo_xl_sheet_rows_read(h, n_rows, n_cols, nodes) ==
  IF Len(nodes) # n_rows
    THEN [row |-> [i \in 1..n_rows |-> [c \in 1..n_cols |-> libo_xl_cell_new]],
          heap |-> h, oob |-> FALSE]
    ELSE ReadRows([row |-> <<>>, heap |-> h, oob |-> FALSE], nodes, 1, n_cols)

SheetReadResult(xls, n_cols, r) ==
  [sheet |-> [xls EXCEPT !.n_cols = n_cols, !.row = r.row],
   heap |-> r.heap, oob |-> r.oob]

libo_xl_sheet_read(h, xls, xml) ==
  SheetReadResult(xls, count_sheet_columns_in_xml(xml.rows),
                  libo_xl_sheet_rows_read(h,
                      count_sheet_rows_in_xml(xml.rows, xml.others),
                      count_sheet_columns_in_xml(xml.rows), xml.rows))

ReaderIdle ==
  [pc |-> "input", xml |-> [rows |-> <<>>, others |-> 0],
   sheet |-> libo_xl_sheet_new, oob |-> FALSE]

(***************************************************************************)
(* libo_open.  The archive is looked up by entry name; xmlParseMemory      *)
(* gives a document for a well-formed text only.                           *)
(***************************************************************************)
HasEntry(a, name) == \E i \in 1..Len(a) : a[i].name = name

EntryOf(a, name) == a[CHOOSE i \in 1..Len(a) : a[i].name = name]

Parses(a, name) == HasEntry(a, name) /\ EntryOf(a, name).wf

is_office_EitherMarker(a) ==
  HasEntry(a, Fixed("docProps/core.xml")) \/ HasEntry(a, Fixed("docProps/app.xml"))

is_office(a) ==
  HasEntry(a, Fixed("docProps/core.xml")) /\ HasEntry(a, Fixed("docProps/app.xml"))

(* the text of /Properties/Application, NULL_NAME without such an element *)
find_app_type_name_in_xml(body) == body.Application

get_type(a) ==
  IF ~Parses(a, Fixed("docProps/app.xml")) THEN "none"
  ELSE IF find_app_type_name_in_xml(EntryOf(a, Fixed("docProps/app.xml")).body)
            = "Microsoft Excel"
    THEN "xl"
    ELSE "none"

is_supported(type) == type = "xl"

count_sheets_in_xml(body) == Len(body.sheets)

libo_xl_sheet_meta_read(body, n) ==
  [libo_xl_sheet_new EXCEPT !.name = body.sheets[n + 1].name,
                            !.ID = atoi(body.sheets[n + 1].sheetId),
                            !.rID = body.sheets[n + 1].rid]

(* libo_xl_sheet_read up to the parsed document: the sheet stays as the    *)
(* meta data left it when the part is absent or does not parse             *)
SheetPartRead(h, a, xls, n) ==
  IF ~Parses(a, Part("xl/worksheets/sheet", n + 1, ".xml"))
    THEN [sheet |-> xls, heap |-> h, oob |-> FALSE]
    ELSE libo_xl_sheet_read(h, xls,
           EntryOf(a, Part("xl/worksheets/sheet", n + 1, ".xml")).body.xml)

RECURSIVE BookReadLoop(_, _, _, _)
BookReadStep(acc, r, a, body, i) ==
  BookReadLoop([null |-> FALSE, book |-> Append(acc.book, r.sheet),
                heap |-> r.heap, oob |-> acc.oob \/ r.oob], a, body, i + 1)

BookReadLoop(acc, a, body, i) ==
  IF i >= count_sheets_in_xml(body) THEN acc
  ELSE BookReadStep(acc,
                    SheetPartRead(acc.heap, a, libo_xl_sheet_meta_read(body, i), i),
                    a, body, i)

NullBook(h) == [null |-> TRUE, book |-> <<>>, heap |-> h, oob |-> FALSE]

(* malloc0 is what malloc(0) gives for a workbook without sheets *)
libo_xl_book_read(h, a, malloc0) ==
  IF ~Parses(a, Fixed("xl/workbook.xml")) THEN NullBook(h)
  ELSE IF count_sheets_in_xml(EntryOf(a, Fixed("xl/workbook.xml")).body) = 0
          /\ malloc0 = "null"
    THEN NullBook(h)
    ELSE BookReadLoop([null |-> FALSE, book |-> <<>>, heap |-> h, oob |-> FALSE],
                      a, EntryOf(a, Fixed("xl/workbook.xml")).body, 0)

RECURSIVE StringsReadLoop(_, _, _)
StringsReadLoop(ss, si, i) ==
  IF i > Len(si) THEN ss ELSE StringsReadLoop(strings_add(ss, si[i]), si, i + 1)

libo_xl_strings_read(a) ==
  IF ~Parses(a, Fixed("xl/sharedStrings.xml"))
    THEN [null |-> TRUE, strings |-> <<>>]
    ELSE [null |-> FALSE,
          strings |-> StringsReadLoop(strings_new,
                        EntryOf(a, Fixed("xl/sharedStrings.xml")).body.si, 1)]

XlReadResult(b, t) ==
  [book_null |-> b.null, book |-> b.book,
   strings_null |-> t.null, strings |-> t.strings,
   heap |-> b.heap, oob |-> b.oob]

libo_xl_read(h, a, malloc0) ==
  XlReadResult(libo_xl_book_read(h, a, malloc0), libo_xl_strings_read(a))

(* what libo_open returns: NULL, or a document with its type and body *)
NullDocument(h) == [pc |-> "null", heap |-> h]

OpenResult(type, xl) == [pc |-> "open", type |-> type, xl |-> xl, heap |-> xl.heap]

(* zip_ok is the outcome of zip_open *)
libo_open(h, a, zip_ok, malloc0) ==
  IF ~zip_ok THEN NullDocument(h)
  ELSE IF ~is_office(a) THEN NullDocument(h)
  ELSE IF ~is_supported(get_type(a)) THEN NullDocument(h)
  ELSE OpenResult(get_type(a), libo_xl_read(h, a, malloc0))

(***************************************************************************)
(* The document after libo_new, libo_set_type(xl) and libo_xl_book_new,    *)
(* and the caller's own cell, row and sheet after their constructors.      *)
(***************************************************************************)
(* no libo_open has been called *)
NotOpened == [pc |-> "closed"]

(* no libo_dup has been called *)
NoCopy == [pc |-> "none"]

(* a document with l->z NULL that has opened no archive; the handles are   *)
(* numbered from 1 in the order of the zip_open calls, closes counting the *)
(* zip_close calls on each                                                 *)
NoCreate == [pc |-> "none", row |-> 0, col |-> 0, ret |-> NullPtr, oob |-> FALSE]

NoHandles ==
  [doc |-> "none", type |-> "none", z |-> 0, handles |-> <<>>, op |-> "none", ret |-> 0]

docvars ==
  <<xlbook, strings, heap, disk, ucell, urow, usheet, reader, opened, copy, zip,
    created>>

NoDisk == [state |-> "none", archive |-> <<>>, ret |-> 0, fail |-> {}]

InitDocument ==
  /\ xlbook = <<>>
  /\ strings = strings_new
  /\ heap = <<>>
  /\ disk = NoDisk
  /\ ucell = libo_xl_cell_new
  /\ urow = libo_xl_row_new
  /\ usheet = libo_xl_sheet_new
  /\ reader = ReaderIdle
  /\ opened = NotOpened
  /\ copy = NoCopy
  /\ zip = NoHandles
  /\ created = NoCreate

(***************************************************************************)
(* Inputs of the codec.                                                    *)
(***************************************************************************)
Alphabet == {65, 66, 90, 97, 48, 49, 50, 36}

RefInputs ==
  UNION {[1..len -> Alphabet] : len \in 0..MaxRefLen}
    \cup {NULL_STR, <<65, 66, 49, 50, 48>>}

NoResult == [row |-> 0, col |-> 0, err |-> "none"]

CodecIdle ==
  [pc |-> "idle", mode |-> "none", n |-> 0, ref |-> <<>>, rc |-> NoResult,
   out |-> <<>>]

InitCodec ==
  /\ InitDocument
  /\ codec \in
    {[pc |-> "start", mode |-> "format", n |-> k, ref |-> <<>>,
      rc |-> NoResult, out |-> <<>>] : k \in 0..MaxColumn}
    \cup
    {[pc |-> "start", mode |-> "parse", n |-> 0, ref |-> s,
      rc |-> NoResult, out |-> <<>>] : s \in RefInputs}

FormatAddress ==
  /\ codec.pc = "start"
  /\ codec.mode = "format"
  /\ codec' = [codec EXCEPT !.pc = "formatted",
                            !.ref = column_number_to_reference(codec.n) \o <<49>>]
  /\ UNCHANGED docvars

ParseAddress ==
  /\ \/ codec.pc = "start" /\ codec.mode = "parse"
     \/ codec.pc = "formatted"
  /\ codec' = [codec EXCEPT !.pc = "parsed",
                            !.rc = cell_ref_to_row_col(codec.ref)]
  /\ UNCHANGED docvars

ReformatAddress ==
  /\ codec.pc = "parsed"
  /\ codec.mode = "parse"
  /\ codec' = [codec EXCEPT !.pc = "reformatted",
                            !.out = column_number_to_reference(codec.rc.col)
                                      \o itoa(codec.rc.row + 1)]
  /\ UNCHANGED docvars

NextCodec == FormatAddress \/ ParseAddress \/ ReformatAddress

SpecCodec == InitCodec /\ [][NextCodec]_vars

(***************************************************************************)
(* Spec: a document built in place and written.  The arguments of the add  *)
(* functions are fresh objects of the caller, drawn from small sets.       *)
(***************************************************************************)
Texts == {"a", "b"}

Names == {"Sheet1", "Sheet2"}

ArgIds == {0, 7}

ArgRids == {NULL_STR, RId(1)}

RefIds == {0, 1, 2}

ArgCells ==
  {libo_xl_cell_new, [libo_xl_cell_new EXCEPT !.type = "number", !.number = 85]}
    \cup {[libo_xl_cell_new EXCEPT !.type = "reference", !.reference = id] :
            id \in RefIds}

RECURSIVE CountCells(_, _)
CountCells(rows, i) ==
  IF i > Len(rows) THEN 0 ELSE Len(rows[i]) + CountCells(rows, i + 1)

RECURSIVE CountNodes(_, _)
CountNodes(b, i) ==
  IF i > Len(b) THEN 0
  ELSE 1 + Len(b[i].row) + CountCells(b[i].row, 1) + CountNodes(b, i + 1)

BookAdd ==
  /\ disk.state = "none"
  /\ CountNodes(xlbook, 1) < MaxNodes
  /\ \E name \in Names, id \in ArgIds, rid \in ArgRids :
       LET xls == [libo_xl_sheet_new EXCEPT !.name = name, !.ID = id, !.rID = rid]
       IN xlbook' = libo_xl_book_add(heap, xlbook, xls, "stale").book
  /\ UNCHANGED <<codec, created, copy, zip, strings, heap, disk,
                 ucell, urow, usheet, reader, opened>>

SheetAdd ==
  /\ disk.state = "none"
  /\ CountNodes(xlbook, 1) < MaxNodes
  /\ \E i \in 1..Len(xlbook) :
       xlbook' = [xlbook EXCEPT ![i] =
                  libo_xl_sheet_add(heap, @, libo_xl_row_new, "stale").sheet]
  /\ UNCHANGED <<codec, created, copy, zip, strings, heap, disk,
                 ucell, urow, usheet, reader, opened>>

RowAdd ==
  /\ disk.state = "none"
  /\ CountNodes(xlbook, 1) < MaxNodes
  /\ \E i \in 1..Len(xlbook) : \E j \in 1..Len(xlbook[i].row) : \E xlc \in ArgCells :
       xlbook' = [xlbook EXCEPT ![i].row[j] =
                  libo_xl_row_add(heap, @, xlc, "stale").row]
  /\ UNCHANGED <<codec, created, copy, zip, strings, heap, disk,
                 ucell, urow, usheet, reader, opened>>

CellSetText ==
  /\ disk.state = "none"
  /\ \E i \in 1..Len(xlbook) : \E j \in 1..Len(xlbook[i].row) :
       \E k \in 1..Len(xlbook[i].row[j]) : \E text \in Texts :
         LET r == libo_xl_cell_set_text(heap, strings, xlbook[i].row[j][k], text)
         IN /\ xlbook' = [xlbook EXCEPT ![i].row[j][k] = r.cell]
            /\ strings' = r.strings
  /\ UNCHANGED <<codec, created, copy, zip, heap, disk, ucell,
                 urow, usheet, reader, opened>>

EntryNames(b) ==
  {Fixed("[Content_Types].xml"), Fixed("docProps/app.xml"),
   Fixed("docProps/core.xml"), Fixed("_rels/.rels"),
   Fixed("xl/_rels/workbook.xml.rels"), Fixed("xl/theme/theme1.xml"),
   Fixed("xl/styles.xml"), Fixed("xl/workbook.xml"), Fixed("xl/sharedStrings.xml")}
    \cup {Part("xl/worksheets/sheet", i, ".xml") : i \in 1..Len(b)}

(* the writer read sht->column[i] of a sheet whose column array is shorter *)
(* than n_cols                                                             *)
ReadsBeyondColumns(book) ==
  \E i \in 1..Len(book) :
    /\ ~book[i].column.null
    /\ Len(book[i].column.at) < book[i].n_cols

(* libo_write(l, path) on a path that does not exist yet; done is the      *)
(* state of the disk after a write that returned                           *)
WriteEffect(w, open_ok, fail, ub, done) ==
  IF open_ok /\ ub.oob = "fault" /\ ReadsBeyondColumns(w.book)
    THEN /\ disk' = [state |-> "faulted", archive |-> <<>>, ret |-> 0, fail |-> fail]
         /\ UNCHANGED <<xlbook, strings>>
    ELSE /\ xlbook' = w.book
         /\ strings' = w.strings
         /\ disk' = [state |-> IF open_ok THEN done ELSE "failed",
                      archive |-> w.archive, ret |-> w.ret, fail |-> fail]

WriteStep(open_choices, fail_choices) ==
  /\ disk.state = "none"
  /\ \E open_ok \in open_choices : \E fail \in fail_choices : \E ub \in UbChoices :
       WriteEffect(libo_write(xlbook, strings, open_ok, fail, ub), open_ok, fail, ub,
                   "written")
  /\ UNCHANGED <<codec, created, copy, zip, heap, ucell, urow,
                 usheet, reader, opened>>

(* a write in which the archive accepts every entry *)
Write == WriteStep({TRUE}, {{}})

Init ==
  /\ InitDocument
  /\ codec = CodecIdle

Next == BookAdd \/ SheetAdd \/ RowAdd \/ CellSetText \/ Write

Spec == Init /\ [][Next]_vars

(***************************************************************************)
(* SpecWriteFail: the same document, written to an archive in which        *)
(* zip_open may fail and zip_file_add may fail for one entry.              *)
(***************************************************************************)
FailChoices(b) == {{}} \cup {{name} : name \in EntryNames(b)}

WriteFail == WriteStep(BOOLEAN, FailChoices(xlbook))

NextWriteFail == BookAdd \/ SheetAdd \/ RowAdd \/ CellSetText \/ WriteFail

SpecWriteFail == Init /\ [][NextWriteFail]_vars

(***************************************************************************)
(* SpecDup: the caller builds a cell, a row and a sheet of its own and     *)
(* hands each to the add function of the next level, which stores a copy.  *)
(***************************************************************************)
Formulas == {NULL_STR, <<61, 65, 49>>}

Values == {NULL_STR, <<50>>}

UafReads == {"stale", "garbage"}

DupCellSetExpression ==
  /\ Len(heap) + 2 <= MaxHeap
  /\ \E formula \in Formulas, value \in Values :
       LET r == libo_xl_cell_set_expression(heap, ucell, formula, value)
       IN /\ ucell' = r.cell
          /\ heap' = r.heap
  /\ UNCHANGED <<codec, created, copy, zip, xlbook, strings, disk,
                 urow, usheet, reader, opened>>

DupCellSetNumber ==
  /\ LET r == libo_xl_cell_set_number(heap, ucell, 85)
     IN /\ ucell' = r.cell
        /\ heap' = r.heap
  /\ UNCHANGED <<codec, created, copy, zip, xlbook, strings, disk,
                 urow, usheet, reader, opened>>

DupRowAddEffect(r) ==
  /\ urow' = r.row
  /\ ucell' = r.orig
  /\ heap' = r.heap

DupSheetAddEffect(r) ==
  /\ usheet' = r.sheet
  /\ urow' = r.orig
  /\ heap' = r.heap

DupBookAddEffect(r) ==
  /\ xlbook' = r.book
  /\ usheet' = r.orig
  /\ heap' = r.heap

DupRowAdd ==
  /\ Len(urow) < MaxDupCells
  /\ Len(heap) + 2 <= MaxHeap
  /\ \E u \in UafReads :
       DupRowAddEffect(libo_xl_row_add(heap, urow, ucell, u))
  /\ UNCHANGED <<codec, created, copy, zip, xlbook, strings, disk,
                 usheet, reader, opened>>

DupSheetAdd ==
  /\ Len(usheet.row) < MaxDupRows
  /\ Len(heap) + 2 * Len(urow) <= MaxHeap
  /\ \E u \in UafReads :
       DupSheetAddEffect(libo_xl_sheet_add(heap, usheet, urow, u))
  /\ UNCHANGED <<codec, created, copy, zip, xlbook, strings, disk,
                 ucell, reader, opened>>

DupBookAdd ==
  /\ Len(xlbook) < MaxDupSheets
  /\ Len(heap) + 2 * CountCells(usheet.row, 1) <= MaxHeap
  /\ \E u \in UafReads :
       DupBookAddEffect(libo_xl_book_add(heap, xlbook, usheet, u))
  /\ UNCHANGED <<codec, created, copy, zip, strings, disk, ucell,
                 urow, reader, opened>>

DupEffect(r) ==
  /\ copy' = r.copy
  /\ xlbook' = r.orig
  /\ heap' = r.heap

(* libo_dup of the document *)
DupDocument ==
  /\ copy = NoCopy
  /\ \E u \in UafReads : DupEffect(libo_dup(heap, xlbook, strings, u))
  /\ UNCHANGED <<codec, created, strings, disk, ucell, urow, usheet,
                 reader, opened, zip>>

NextDup ==
  DupCellSetExpression \/ DupCellSetNumber \/ DupRowAdd \/ DupSheetAdd
    \/ DupBookAdd \/ DupDocument

SpecDup == Init /\ [][NextDup]_vars

(***************************************************************************)
(* SpecCell: one cell of the caller, changed by the setters of the public  *)
(* API in any order.                                                       *)
(***************************************************************************)
CellTypes == {"none", "reference", "expression", "number"}

OneCellSetText ==
  /\ \E text \in Texts :
       LET r == libo_xl_cell_set_text(heap, strings, ucell, text)
       IN /\ ucell' = r.cell
          /\ heap' = r.heap
          /\ strings' = r.strings
  /\ UNCHANGED <<codec, created, copy, zip, xlbook, disk, urow,
                 usheet, reader, opened>>

OneCellSetType ==
  /\ \E type \in CellTypes :
       LET r == libo_xl_cell_set_type(heap, ucell, type)
       IN /\ ucell' = r.cell
          /\ heap' = r.heap
  /\ UNCHANGED <<codec, created, copy, zip, xlbook, strings, disk,
                 urow, usheet, reader, opened>>

OneCellSetReference ==
  /\ \E reference \in RefIds :
       ucell' = libo_xl_cell_set_reference(ucell, reference)
  /\ UNCHANGED <<codec, created, copy, zip, xlbook, strings, heap,
                 disk, urow, usheet, reader, opened>>

NextCell ==
  DupCellSetExpression \/ DupCellSetNumber \/ OneCellSetText \/ OneCellSetType
    \/ OneCellSetReference

SpecCell == Init /\ [][NextCell]_vars

(***************************************************************************)
(* SpecRead: a worksheet part is put together node by node, then read by   *)
(* libo_xl_sheet_read into a new sheet.                                    *)
(***************************************************************************)
SpansInputs == {<<49, 58, 50>>, <<49, 58, 51>>}

CNode(col, k, t, v, f) ==
  [name |-> "c", r |-> <<col>> \o itoa(k), t |-> t, v |-> v, f |-> f]

(* the child nodes a row numbered k may get *)
ChildInputs(k) ==
  {CNode(col, k, NULL_STR, <<55>>, NULL_STR) : col \in {65, 66, 67, 68}}
    \cup {CNode(66, k, <<115>>, <<48>>, NULL_STR),
          CNode(67, k, <<101>>, <<50>>, <<61, 65, 49>>),
          TextNode}

RECURSIVE CountChildren(_, _)
CountChildren(rows, i) ==
  IF i > Len(rows) THEN 0
  ELSE 1 + Len(rows[i].children) + CountChildren(rows, i + 1)

XmlAddRow ==
  /\ reader.pc = "input"
  /\ CountChildren(reader.xml.rows, 1) < MaxXmlNodes
  /\ \E spans \in IF reader.xml.rows = <<>> THEN SpansInputs ELSE {NULL_STR} :
       reader' = [reader EXCEPT !.xml.rows =
                    Append(@, [spans |-> spans, children |-> <<>>])]
  /\ UNCHANGED <<codec, created, copy, zip, xlbook, strings, heap,
                 disk, ucell, urow, usheet, opened>>

XmlAddChild ==
  /\ reader.pc = "input"
  /\ reader.xml.rows # <<>>
  /\ CountChildren(reader.xml.rows, 1) < MaxXmlNodes
  /\ \E node \in ChildInputs(Len(reader.xml.rows)) :
       reader' = [reader EXCEPT !.xml.rows[Len(reader.xml.rows)].children =
                    Append(@, node)]
  /\ UNCHANGED <<codec, created, copy, zip, xlbook, strings, heap,
                 disk, ucell, urow, usheet, opened>>

(* an element child of sheetData that is no row *)
XmlAddOther ==
  /\ reader.pc = "input"
  /\ reader.xml.others = 0
  /\ CountChildren(reader.xml.rows, 1) < MaxXmlNodes
  /\ reader' = [reader EXCEPT !.xml.others = 1]
  /\ UNCHANGED <<codec, created, copy, zip, xlbook, strings, heap,
                 disk, ucell, urow, usheet, opened>>

SheetReadEffect(r) ==
  /\ reader' = [reader EXCEPT !.pc = "read", !.sheet = r.sheet, !.oob = r.oob]
  /\ heap' = r.heap

SheetRead ==
  /\ reader.pc = "input"
  /\ SheetReadEffect(libo_xl_sheet_read(heap, libo_xl_sheet_new, reader.xml))
  /\ UNCHANGED <<codec, created, copy, zip, xlbook, strings, disk,
                 ucell, urow, usheet, opened>>

NextRead == XmlAddRow \/ XmlAddChild \/ XmlAddOther \/ SheetRead

SpecRead == Init /\ [][NextRead]_vars

(***************************************************************************)
(* SpecTraverse: the sheet libo_xl_sheet_read has made is walked as the    *)
(* test program walks it, one row index and one cell index at a time, the  *)
(* indexes also outside the sheet.                                         *)
(***************************************************************************)
NullDups == {"fault", "null"}

(* what the accessors hand back for the cell pointer xlc *)
CellGot(h, ss, xlc, nulldup) ==
  [null |-> xlc.null,
   type |-> libo_xl_cell_get_type(xlc),
   reference |-> libo_xl_cell_get_reference(xlc),
   number |-> libo_xl_cell_get_number(xlc),
   expression |-> libo_xl_cell_get_expression(xlc),
   string_value |-> libo_xl_cell_get_string_value(h, ss, xlc, nulldup, "stale")]

Traverse ==
  /\ reader.pc = "read"
  /\ \E j \in (0 - 1)..Len(reader.sheet.row) : \E k \in (0 - 1)..reader.sheet.n_cols :
       \E nulldup \in NullDups :
         reader' = [pc |-> "traversed", xml |-> reader.xml, sheet |-> reader.sheet,
                    oob |-> reader.oob, row |-> j, cell |-> k,
                    got |-> CellGot(heap, strings,
                              libo_xl_row_get_cell(
                                libo_xl_sheet_get_row(Ptr(reader.sheet), j), k),
                              nulldup)]
  /\ UNCHANGED <<codec, created, copy, zip, xlbook, strings, heap,
                 disk, ucell, urow, usheet, opened>>

NextTraverse == XmlAddRow \/ XmlAddChild \/ XmlAddOther \/ SheetRead \/ Traverse

SpecTraverse == Init /\ [][NextTraverse]_vars

(***************************************************************************)
(* SpecOpen: an archive from elsewhere is put together entry by entry,     *)
(* then handed to libo_open.  The entries are kept in one fixed order, all *)
(* lookups being by name.                                                  *)
(***************************************************************************)
ForeignNames ==
  <<Fixed("docProps/core.xml"), Fixed("docProps/app.xml"), Fixed("xl/workbook.xml"),
    Part("xl/worksheets/sheet", 1, ".xml"), Part("xl/worksheets/sheet", 2, ".xml"),
    Fixed("xl/sharedStrings.xml")>>

Applications == {"Microsoft Excel", "Microsoft Office Word", NULL_NAME}

WorkbookSheets(n) ==
  [i \in 1..n |-> [name |-> IF i = 1 THEN "Sheet1" ELSE "Sheet2",
                   sheetId |-> itoa(i), rid |-> RId(i + 3)]]

(* an empty sheetData, and one row with the number 42.5 in A1 *)
SheetXmls ==
  {[rows |-> <<>>, others |-> 0],
   [rows |-> <<[spans |-> <<49, 58, 49>>,
                children |-> <<CNode(65, 1, NULL_STR, <<52, 50, 46, 53>>, NULL_STR)>>]>>,
    others |-> 0]}

(* the bodies an entry of the k-th name may have *)
ForeignBodies(k) ==
  IF k = 1 THEN {[core |-> TRUE]}
  ELSE IF k = 2 THEN {[Application |-> app] : app \in Applications}
  ELSE IF k = 3 THEN {[sheets |-> WorkbookSheets(n)] : n \in 0..2}
  ELSE IF k = 6 THEN {[si |-> <<>>], [si |-> <<"a", "b">>]}
  ELSE {[xml |-> xml] : xml \in SheetXmls}

(* the last name of ForeignNames the archive holds, 0 for none *)
LastForeign(a) ==
  IF a = <<>> THEN 0
  ELSE CHOOSE k \in 1..Len(ForeignNames) : ForeignNames[k] = a[Len(a)].name

PutEntry ==
  /\ opened.pc = "closed"
  /\ \E k \in (LastForeign(disk.archive) + 1)..Len(ForeignNames) :
       \E body \in ForeignBodies(k) : \E wf \in BOOLEAN :
         disk' = [disk EXCEPT !.state = "foreign",
                              !.archive = Append(@, [name |-> ForeignNames[k],
                                                     body |-> body, wf |-> wf])]
  /\ UNCHANGED <<codec, created, copy, zip, xlbook, strings, heap,
                 ucell, urow, usheet, reader, opened>>

OpenEffect(l) ==
  /\ opened' = l
  /\ heap' = l.heap

Open ==
  /\ opened.pc = "closed"
  /\ \E zip_ok \in BOOLEAN : \E malloc0 \in {"null", "block"} :
       OpenEffect(libo_open(heap, disk.archive, zip_ok, malloc0))
  /\ UNCHANGED <<codec, created, copy, zip, xlbook, strings, disk,
                 ucell, urow, usheet, reader>>

NextOpen == PutEntry \/ Open

SpecOpen == Init /\ [][NextOpen]_vars

(***************************************************************************)
(* SpecRoundTrip: a workbook of one sheet with one row is built with the   *)
(* mutators, written, and the archive just written is opened again.        *)
(***************************************************************************)
(* in halves: 0, 0.5, 1, 42, 42.5, -42.5, 99999.5, 123456, 1234567 and     *)
(* 12345678                                                                *)
NumberInputs == {0, 1, 2, 84, 85, 0 - 85, 199999, 246912, 2469134, 24691356}

TextRows == {<<x>> : x \in Texts} \cup {<<x, y>> : x, y \in Texts}

(* the workbook after libo_xl_row_add, libo_xl_sheet_add and               *)
(* libo_xl_book_add of a new sheet called name with the one row xlr        *)
OneRowBook(h, name, xlr) ==
  libo_xl_book_add(h, <<>>,
    libo_xl_sheet_add(h, [libo_xl_sheet_new EXCEPT !.name = name], xlr, "stale").sheet,
    "stale").book

RtNumberDocument ==
  /\ xlbook = <<>>
  /\ disk.state = "none"
  /\ \E name \in Names : \E v \in NumberInputs :
       xlbook' = OneRowBook(heap, name,
                   libo_xl_row_add(heap, libo_xl_row_new,
                       libo_xl_cell_set_number(heap, libo_xl_cell_new, v).cell,
                       "stale").row)
  /\ UNCHANGED <<codec, created, copy, zip, strings, heap, disk,
                 ucell, urow, usheet, reader, opened>>

(* libo_xl_cell_set_text on a new cell and libo_xl_row_add of it, for each *)
(* text in turn                                                            *)
RECURSIVE TextRow(_, _, _, _, _)
TextRowStep(h, r, xlr, texts, i) ==
  TextRow(h, r.strings, libo_xl_row_add(h, xlr, r.cell, "stale").row, texts, i + 1)

TextRow(h, ss, xlr, texts, i) ==
  IF i > Len(texts) THEN [row |-> xlr, strings |-> ss]
  ELSE TextRowStep(h, libo_xl_cell_set_text(h, ss, libo_xl_cell_new, texts[i]),
                   xlr, texts, i)

RtTextEffect(name, r) ==
  /\ xlbook' = OneRowBook(heap, name, r.row)
  /\ strings' = r.strings

RtTextDocument ==
  /\ xlbook = <<>>
  /\ disk.state = "none"
  /\ \E name \in Names : \E texts \in TextRows :
       RtTextEffect(name, TextRow(heap, strings, libo_xl_row_new, texts, 1))
  /\ UNCHANGED <<codec, created, copy, zip, heap, disk, ucell,
                 urow, usheet, reader, opened>>

(* a workbook of one sheet and one row with one Expression cell, made by    *)
(* libo_xl_cell_set_expression, libo_xl_row_add, libo_xl_sheet_add and     *)
(* libo_xl_book_add                                                        *)
RtExpressionEffect(b) ==
  /\ xlbook' = b.book
  /\ heap' = b.heap

RtExpressionSheet(name, r) ==
  libo_xl_sheet_add(r.heap, [libo_xl_sheet_new EXCEPT !.name = name], r.row, "stale")

RtExpressionBook(s) == libo_xl_book_add(s.heap, <<>>, s.sheet, "stale")

RtExpressionRow(c) == libo_xl_row_add(c.heap, libo_xl_row_new, c.cell, "stale")

RtExpressionDocument ==
  /\ xlbook = <<>>
  /\ disk.state = "none"
  /\ \E name \in Names : \E formula \in Formulas : \E value \in Values :
       RtExpressionEffect(RtExpressionBook(RtExpressionSheet(name,
         RtExpressionRow(
           libo_xl_cell_set_expression(heap, libo_xl_cell_new, formula, value)))))
  /\ UNCHANGED <<codec, created, copy, zip, strings, disk, ucell,
                 urow, usheet, reader, opened>>

RtWrite ==
  /\ xlbook # <<>>
  /\ Write

(* libo_open of the file just written: zip_open finds it *)
Reopen ==
  /\ disk.state = "written"
  /\ opened.pc = "closed"
  /\ \E malloc0 \in {"null", "block"} :
       OpenEffect(libo_open(heap, disk.archive, TRUE, malloc0))
  /\ UNCHANGED <<codec, created, copy, zip, xlbook, strings, disk,
                 ucell, urow, usheet, reader>>

NextRoundTrip ==
  RtExpressionDocument \/ RtNumberDocument \/ RtTextDocument \/ RtWrite \/ Reopen

SpecRoundTrip == Init /\ [][NextRoundTrip]_vars

(***************************************************************************)
(* SpecFreeze: sheets are added to the workbook, the stored sheets         *)
(* (libo_xl_book_get_sheet) get a freeze, and the document is written.     *)
(***************************************************************************)
FreezeTypes == {"none", "top", "left"}

(* the caller's sheet may carry a freeze of its own when it is added *)
FzBookAdd ==
  /\ disk.state = "none"
  /\ Len(xlbook) < MaxFreezeSheets
  /\ \E name \in Names : \E type \in FreezeTypes :
       xlbook' = libo_xl_book_add(heap, xlbook,
                   libo_xl_sheet_set_freeze([libo_xl_sheet_new EXCEPT !.name = name],
                                            type, 1),
                   "stale").book
  /\ UNCHANGED <<codec, created, copy, zip, strings, heap, disk,
                 ucell, urow, usheet, reader, opened>>

SheetSetFreeze ==
  /\ disk.state = "none"
  /\ \E i \in 1..Len(xlbook) : \E type \in FreezeTypes : \E n \in 0..MaxFreeze :
       xlbook' = [xlbook EXCEPT ![i] = libo_xl_sheet_set_freeze(@, type, n)]
  /\ UNCHANGED <<codec, created, copy, zip, strings, heap, disk,
                 ucell, urow, usheet, reader, opened>>

NextFreeze == FzBookAdd \/ SheetSetFreeze \/ Write

SpecFreeze == Init /\ [][NextFreeze]_vars

(***************************************************************************)
(* SpecSheet: the caller names its sheet, gives it a freeze and a filter,  *)
(* adds rows to it and adds it to the workbook; the document is written.   *)
(***************************************************************************)
UserSheetSetName ==
  /\ \E name \in Names : usheet' = [usheet EXCEPT !.name = name]
  /\ UNCHANGED <<codec, created, copy, zip, xlbook, strings, heap,
                 disk, ucell, urow, reader, opened>>

UserSheetSetFreeze ==
  /\ \E type \in FreezeTypes : usheet' = libo_xl_sheet_set_freeze(usheet, type, 1)
  /\ UNCHANGED <<codec, created, copy, zip, xlbook, strings, heap,
                 disk, ucell, urow, reader, opened>>

UserSheetAddFilter ==
  /\ usheet' = libo_xl_sheet_add_filter(usheet, 0, 1)
  /\ UNCHANGED <<codec, created, copy, zip, xlbook, strings, heap,
                 disk, ucell, urow, reader, opened>>

ShBookAdd ==
  /\ disk.state = "none"
  /\ DupBookAdd

NextSheet ==
  \/ UserSheetSetName \/ UserSheetSetFreeze \/ UserSheetAddFilter
  \/ DupRowAdd \/ DupSheetAdd \/ ShBookAdd \/ Write

SpecSheet == Init /\ [][NextSheet]_vars

(***************************************************************************)
(* SpecRewrite: a document is built and written, rows and cells are added  *)
(* to its sheets, and it is written once more, to another path.            *)
(***************************************************************************)
LaterSheetAdd ==
  /\ disk.state = "written"
  /\ CountNodes(xlbook, 1) < MaxNodes
  /\ \E i \in 1..Len(xlbook) :
       xlbook' = [xlbook EXCEPT ![i] =
                  libo_xl_sheet_add(heap, @, libo_xl_row_new, "stale").sheet]
  /\ UNCHANGED <<codec, created, copy, zip, strings, heap, disk,
                 ucell, urow, usheet, reader, opened>>

LaterRowAdd ==
  /\ disk.state = "written"
  /\ CountNodes(xlbook, 1) < MaxNodes
  /\ \E i \in 1..Len(xlbook) : \E j \in 1..Len(xlbook[i].row) :
       xlbook' = [xlbook EXCEPT ![i].row[j] =
                  libo_xl_row_add(heap, @, libo_xl_cell_new, "stale").row]
  /\ UNCHANGED <<codec, created, copy, zip, strings, heap, disk,
                 ucell, urow, usheet, reader, opened>>

WriteAgain ==
  /\ disk.state = "written"
  /\ \E ub \in UbChoices :
       WriteEffect(libo_write(xlbook, strings, TRUE, {}, ub), TRUE, {}, ub, "rewritten")
  /\ UNCHANGED <<codec, created, copy, zip, heap, ucell, urow,
                 usheet, reader, opened>>

NextRewrite ==
  BookAdd \/ SheetAdd \/ RowAdd \/ Write \/ LaterSheetAdd \/ LaterRowAdd \/ WriteAgain

SpecRewrite == Init /\ [][NextRewrite]_vars

(***************************************************************************)
(* SpecHandle: the archive handle l->z of one document under libo_new,     *)
(* libo_open, libo_write, libo_close, libo_set_type and libo_free.         *)
(* zip.handles has one entry for each handle zip_open gave out, with the   *)
(* number of times zip_close was called on it; zip.z is the index of the   *)
(* handle in l->z, 0 for NULL.                                             *)
(***************************************************************************)
LiboTypes == {"none", "xl", "doc", "pp"}

libo_new == [NoHandles EXCEPT !.doc = "live"]

(* l->z = zip_open(...): whatever l->z held is overwritten; a failed       *)
(* zip_open gives NULL                                                     *)
zip_open(zr, open_ok) ==
  IF open_ok
    THEN [zr EXCEPT !.handles = Append(@, [closes |-> 0]), !.z = Len(zr.handles) + 1]
    ELSE [zr EXCEPT !.z = 0]

libo_close(zr) ==
  IF zr.z # 0
    THEN [zr EXCEPT !.handles[zr.z].closes = @ + 1, !.z = 0]
    ELSE zr

libo_free(zr) == [libo_close(zr) EXCEPT !.doc = "freed"]

libo_set_type(zr, type) == [libo_close(zr) EXCEPT !.type = type]

(* outcome is where libo_open leaves: "zip" zip_open failed (NULL is       *)
(* returned and l is not freed), "office", "supported" or "read" one of    *)
(* the three checks failed (libo_free(l)), "ok" the document is handed out *)
(* with its archive open.                                                  *)
OpenOutcomes == {"zip", "office", "supported", "read", "ok"}

libo_open_handle(outcome) ==
  IF outcome = "zip" THEN [zip_open(libo_new, FALSE) EXCEPT !.doc = "leaked"]
  ELSE IF outcome = "office" THEN libo_free(zip_open(libo_new, TRUE))
  ELSE IF outcome = "supported"
    THEN libo_free([zip_open(libo_new, TRUE) EXCEPT !.type = "doc"])
  ELSE IF outcome = "read"
    THEN libo_free([zip_open(libo_new, TRUE) EXCEPT !.type = "xl"])
  ELSE [zip_open(libo_new, TRUE) EXCEPT !.type = "xl"]

(* the parts written between zip_open and libo_close do not touch l->z *)
libo_write_handle(zr, open_ok) ==
  IF ~open_ok THEN [zip_open(zr, FALSE) EXCEPT !.ret = 0 - 1]
  ELSE [libo_close(zip_open(zr, TRUE)) EXCEPT !.ret = 0]

HNew ==
  /\ zip.doc = "none"
  /\ zip' = [libo_new EXCEPT !.op = "new"]
  /\ UNCHANGED <<codec, created, copy, xlbook, strings, heap, disk,
                 ucell, urow, usheet, reader, opened>>

HOpen ==
  /\ zip.doc = "none"
  /\ \E outcome \in OpenOutcomes :
       zip' = [libo_open_handle(outcome) EXCEPT !.op = "open"]
  /\ UNCHANGED <<codec, created, copy, xlbook, strings, heap, disk,
                 ucell, urow, usheet, reader, opened>>

HWrite ==
  /\ zip.doc = "live"
  /\ Len(zip.handles) < MaxHandles
  /\ \E open_ok \in BOOLEAN :
       zip' = [libo_write_handle(zip, open_ok) EXCEPT !.op = "write"]
  /\ UNCHANGED <<codec, created, copy, xlbook, strings, heap, disk,
                 ucell, urow, usheet, reader, opened>>

HClose ==
  /\ zip.doc = "live"
  /\ zip' = [libo_close(zip) EXCEPT !.op = "close"]
  /\ UNCHANGED <<codec, created, copy, xlbook, strings, heap, disk,
                 ucell, urow, usheet, reader, opened>>

HSetType ==
  /\ zip.doc = "live"
  /\ \E type \in LiboTypes : zip' = [libo_set_type(zip, type) EXCEPT !.op = "set_type"]
  /\ UNCHANGED <<codec, created, copy, xlbook, strings, heap, disk,
                 ucell, urow, usheet, reader, opened>>

HFree ==
  /\ zip.doc = "live"
  /\ zip' = [libo_free(zip) EXCEPT !.op = "free"]
  /\ UNCHANGED <<codec, created, copy, xlbook, strings, heap, disk,
                 ucell, urow, usheet, reader, opened>>

NextHandle == HNew \/ HOpen \/ HWrite \/ HClose \/ HSetType \/ HFree

SpecHandle == Init /\ [][NextHandle]_vars

(***************************************************************************)
(* SpecCreate: the caller builds a sheet with libo_xl_row_add and          *)
(* libo_xl_sheet_add and calls libo_xl_cell_create on it.                  *)
(***************************************************************************)
(* the row array is reallocated to max_row elements and the elements from  *)
(* n_rows on are new rows                                                  *)
libo_xl_row_fill(sheet, max_row) ==
  [sheet EXCEPT !.row = [i \in 1..max_row |->
                           IF i <= Len(sheet.row) THEN sheet.row[i]
                           ELSE libo_xl_row_new]]

ColFillRow(xlr, max_col) ==
  [k \in 1..max_col |-> IF k <= Len(xlr) THEN xlr[k] ELSE libo_xl_cell_new]

(* sheet->row[row] is read after the fill: beyond is that read outside the *)
(* row array, and then the cell array that is reallocated and filled is    *)
(* not one of the sheet                                                    *)
ColFillResult(sheet, row, max_col) ==
  IF row >= Len(sheet.row) THEN [sheet |-> sheet, beyond |-> TRUE]
  ELSE [sheet |-> [sheet EXCEPT !.row[row + 1] = ColFillRow(@, max_col)],
        beyond |-> FALSE]

libo_xl_col_fill(sheet, row, max_col) ==
  ColFillResult(IF row >= Len(sheet.row) THEN libo_xl_row_fill(sheet, row) ELSE sheet,
                row, max_col)

CellCreateResult(f) == [sheet |-> f.sheet, ret |-> NullPtr, beyond |-> f.beyond]

libo_xl_cell_create(sheet, row, col) ==
  IF row < 0 \/ col < 0 THEN [sheet |-> sheet, ret |-> NullPtr, beyond |-> FALSE]
  ELSE IF row < Len(sheet.row) /\ col < Len(sheet.row[row + 1])
    THEN [sheet |-> sheet, ret |-> Ptr(sheet.row[row + 1][col + 1]), beyond |-> FALSE]
  ELSE CellCreateResult(libo_xl_col_fill(sheet, row, col))

(* u is what the access outside the row array does: a fault of the         *)
(* process, or a pointer of no meaning that is written through             *)
CellCreateEffect(r, row, col, u) ==
  IF r.beyond /\ u = "fault"
    THEN /\ created' = [pc |-> "faulted", row |-> row, col |-> col,
                        ret |-> NullPtr, oob |-> TRUE]
         /\ UNCHANGED usheet
    ELSE /\ created' = [pc |-> "created", row |-> row, col |-> col,
                        ret |-> r.ret, oob |-> r.beyond]
         /\ usheet' = r.sheet

CellCreate ==
  /\ created.pc # "faulted"
  /\ \E row \in 0..MaxCreate : \E col \in 0..MaxCreate : \E u \in {"fault", "garbage"} :
       CellCreateEffect(libo_xl_cell_create(usheet, row, col), row, col, u)
  /\ UNCHANGED <<codec, copy, zip, xlbook, strings, heap, disk, ucell, urow, reader,
                 opened>>

CrRowAdd ==
  /\ created.pc # "faulted"
  /\ DupRowAdd

CrSheetAdd ==
  /\ created.pc # "faulted"
  /\ DupSheetAdd

NextCreate == CrRowAdd \/ CrSheetAdd \/ CellCreate

SpecCreate == Init /\ [][NextCreate]_vars

(***************************************************************************)
(* Properties of the address codec.                                        *)
(***************************************************************************)
IsUpper(c) == c >= 65 /\ c <= 90

LettersOf(s) == SubSeq(s, 1, AlphaRun(s, 1) - 1)

DigitsOf(s) == SubSeq(s, AlphaRun(s, 1), Len(s))

(* a non-empty run of A..Z followed by a non-empty run of digits *)
IsWellFormed(s) ==
  /\ s # NULL_STR
  /\ Len(LettersOf(s)) >= 1
  /\ Len(DigitsOf(s)) >= 1
  /\ \A i \in 1..Len(LettersOf(s)) : IsUpper(LettersOf(s)[i])
  /\ \A i \in 1..Len(DigitsOf(s)) : isdigit(DigitsOf(s)[i])

RECURSIVE DecimalValue(_)
DecimalValue(d) ==
  IF d = <<>> THEN 0
  ELSE DecimalValue(SubSeq(d, 1, Len(d) - 1)) * 10 + (d[Len(d)] - 48)

RECURSIVE LetterSum(_)
LetterSum(l) ==
  IF l = <<>> THEN 0
  ELSE LetterSum(SubSeq(l, 1, Len(l) - 1)) * 26 + (l[Len(l)] - 64)

(* a well-formed address whose row number is a decimal number >= 1 *)
IsValidAddress(s) ==
  /\ IsWellFormed(s)
  /\ DigitsOf(s)[1] # 48

(* C4: formatting a column number n >= 0, appending "1" and parsing the    *)
(* result yields column n and row 0.                                       *)
C4_FormatThenParse ==
  (codec.mode = "format" /\ codec.pc = "parsed")
    => (codec.rc.col = codec.n /\ codec.rc.row = 0)

C4_Witness ==
  /\ codec.mode = "format"
  /\ codec.pc = "parsed"
  /\ codec.n = 18278
  /\ codec.ref = <<65, 65, 65, 65, 49>>

(* C5: a valid address parses to row = number - 1 and col = (sum of        *)
(* letter_value * 26^position) - 1, and formatting that column followed by *)
(* row + 1 reproduces the address text; "A1" is (0,0), "AB120" is (119,27).*)
C5_ParseThenFormat ==
  /\ (codec.mode = "parse" /\ codec.pc \in {"parsed", "reformatted"}
        /\ IsValidAddress(codec.ref))
       => /\ codec.rc.row = DecimalValue(DigitsOf(codec.ref)) - 1
          /\ codec.rc.col = LetterSum(LettersOf(codec.ref)) - 1
  /\ (codec.mode = "parse" /\ codec.pc = "reformatted"
        /\ IsValidAddress(codec.ref))
       => codec.out = codec.ref
  /\ (codec.pc = "parsed" /\ codec.ref = <<65, 49>>)
       => (codec.rc.row = 0 /\ codec.rc.col = 0)
  /\ (codec.pc = "parsed" /\ codec.ref = <<65, 66, 49, 50, 48>>)
       => (codec.rc.row = 119 /\ codec.rc.col = 27)

C5_Witness ==
  /\ codec.pc = "reformatted"
  /\ codec.ref = <<65, 66, 49, 50, 48>>
  /\ codec.out = <<65, 66, 49, 50, 48>>

(* C6: parsing a text that is not a run of A..Z followed by a run of       *)
(* digits (empty letters, empty digits, other characters, a null           *)
(* reference) reports InvalidAddress.                                      *)
C6_InvalidAddressReported ==
  (codec.mode = "parse" /\ codec.pc = "parsed" /\ ~IsWellFormed(codec.ref))
    => codec.rc.err = "InvalidAddress"

(***************************************************************************)
(* Properties of the shared strings.                                       *)
(***************************************************************************)
CellAt(b, p) == b[p[1]].row[p[2]][p[3]]

Positions(b) == {CellPositions(b, 1, 1, 1)[n] : n \in 1..Len(CellPositions(b, 1, 1, 1))}

RefPositions(b) == {p \in Positions(b) : CellAt(b, p).type = "reference"}

Resolves(ss, c) ==
  c.type = "reference" /\ \E i \in 1..Len(ss) : ss[i].id = c.reference

TextOf(ss, c) == ss[CHOOSE i \in 1..Len(ss) : ss[i].id = c.reference].text

(* C1: after the renumbering pass of a write every Reference cell holds an *)
(* id that is present in the new String Table, also when a Reference cell  *)
(* held an absent id before the pass.                                      *)
C1_RenumberedIdsPresent ==
  disk.state = "written"
    => \A p \in RefPositions(xlbook) : Resolves(strings, CellAt(xlbook, p))

(* the texts of the resolving Reference cells, in document order, each once *)
RECURSIVE FirstEncounters(_, _, _, _)
FirstEncounters(b, ss, ps, n) ==
  IF n = 0 THEN <<>>
  ELSE LET before == FirstEncounters(b, ss, ps, n - 1)
           c == CellAt(b, ps[n])
       IN IF Resolves(ss, c) /\ \A m \in 1..Len(before) : before[m] # TextOf(ss, c)
            THEN Append(before, TextOf(ss, c))
            ELSE before

RenumberedAsClaimed(b, ss, nb, nss) ==
  LET ps == CellPositions(b, 1, 1, 1)
      fe == FirstEncounters(b, ss, ps, Len(ps))
  IN /\ Len(nss) = Len(fe)
     /\ \A n \in 1..Len(fe) :
          \E i \in 1..Len(nss) : nss[i].id = n - 1 /\ nss[i].text = fe[n]
     /\ \A p, q \in RefPositions(b) :
          (Resolves(ss, CellAt(b, p)) /\ Resolves(ss, CellAt(b, q))
             /\ TextOf(ss, CellAt(b, p)) = TextOf(ss, CellAt(b, q)))
            => CellAt(nb, p).reference = CellAt(nb, q).reference

(* C2: the renumbering pass leaves the ids 0..N-1, N the number of         *)
(* distinct texts referenced, assigned in first-encounter document order,  *)
(* and two Reference cells with the same text end with the same id.        *)
C2_DenseFirstEncounterIds ==
  [][(disk.state = "none" /\ disk'.state = "written")
       => RenumberedAsClaimed(xlbook, strings, xlbook', strings')]_vars

UniqueEntries(ss) ==
  \A i, j \in 1..Len(ss) :
    (ss[i].text = ss[j].text \/ ss[i].id = ss[j].id) => i = j

SetTextInterns(b, h, ss, p, text) ==
  LET r == libo_xl_cell_set_text(h, ss, CellAt(b, p), text)
  IN /\ r.cell.type = "reference"
     /\ libo_xl_cell_get_text(r.strings, r.cell) = text
     /\ UniqueEntries(r.strings)
     /\ \A i \in 1..Len(ss) : r.strings[i] = ss[i]
     /\ \A q \in RefPositions(b) \ {p} :
          libo_xl_cell_get_text(r.strings, CellAt(b, q)) = text
            => CellAt(b, q).reference = r.cell.reference

(* C7: the String Table holds one entry per distinct text, and setting a   *)
(* cell to a text gives it the id every other cell of that text holds,     *)
(* which resolves to the text.                                             *)
C7_InterningIdempotent ==
  /\ UniqueEntries(strings)
  /\ \A i \in 1..Len(strings) : strings[i].text \in Texts
  /\ disk.state = "none"
       => \A p \in Positions(xlbook) : \A text \in Texts :
            SetTextInterns(xlbook, heap, strings, p, text)

C7_Witness ==
  /\ disk.state = "none"
  /\ Len(strings) = 2
  /\ \E p, q \in RefPositions(xlbook) :
       /\ p # q
       /\ p[2] # q[2]
       /\ libo_xl_cell_get_text(strings, CellAt(xlbook, p)) = "b"
       /\ libo_xl_cell_get_text(strings, CellAt(xlbook, q)) = "b"
       /\ CellAt(xlbook, p).reference = 1
       /\ CellAt(xlbook, q).reference = 1

(***************************************************************************)
(* Properties of the add functions.                                        *)
(***************************************************************************)
CellPointers(c) ==
  (IF c.type = "expression" /\ c.formula # 0 THEN <<c.formula>> ELSE <<>>)
    \o (IF c.type = "expression" /\ c.value # 0 THEN <<c.value>> ELSE <<>>)

RECURSIVE RowPointers(_, _)
RowPointers(r, k) ==
  IF k > Len(r) THEN <<>> ELSE CellPointers(r[k]) \o RowPointers(r, k + 1)

RECURSIVE RowsPointers(_, _)
RowsPointers(rows, i) ==
  IF i > Len(rows) THEN <<>>
  ELSE RowPointers(rows[i], 1) \o RowsPointers(rows, i + 1)

RECURSIVE BookPointers(_, _)
BookPointers(b, i) ==
  IF i > Len(b) THEN <<>>
  ELSE RowsPointers(b[i].row, 1) \o BookPointers(b, i + 1)

(* the strings held by the copies stored in a row, a sheet or the workbook *)
StoredPointers ==
  RowPointers(urow, 1) \o RowsPointers(usheet.row, 1) \o BookPointers(xlbook, 1)

HeldPointers == CellPointers(ucell) \o StoredPointers

(* C3: the add functions store a deep copy: the strings of a stored copy   *)
(* are valid whatever the caller frees, and no string is owned by two      *)
(* cells.                                                                  *)
C3_AddStoresDeepCopy ==
  /\ \A n \in 1..Len(StoredPointers) : IsLive(heap, StoredPointers[n])
  /\ \A m, n \in 1..Len(HeldPointers) :
       HeldPointers[m] = HeldPointers[n] => m = n

IsDecimal(d, k) == Len(d) >= 1 /\ d[1] # 48 /\ DecimalValue(d) = k

IsRId(s, k) ==
  /\ s # NULL_STR
  /\ Len(s) > 3
  /\ SubSeq(s, 1, 3) = <<114, 73, 100>>
  /\ IsDecimal(SubSeq(s, 4, Len(s)), k)

(* C8: after any sequence of libo_xl_book_add calls the sheet at position  *)
(* i (from 0) has ID i+1 and rID "rId" followed by i+4, so ids are dense   *)
(* and relationship ids pairwise distinct.                                 *)
C8_BookAddAssignsIds ==
  /\ \A i \in 1..Len(xlbook) :
       xlbook[i].ID = (i - 1) + 1 /\ IsRId(xlbook[i].rID, (i - 1) + 4)
  /\ \A i, j \in 1..Len(xlbook) : xlbook[i].rID = xlbook[j].rID => i = j

C8_Witness ==
  /\ Len(xlbook) = 3
  /\ xlbook[3].ID = 3
  /\ xlbook[3].rID = <<114, 73, 100, 54>>

(***************************************************************************)
(* Properties of the written container.                                    *)
(***************************************************************************)
Entries(name) ==
  {n \in 1..Len(disk.archive) : disk.archive[n].name = name}

Body(name) == disk.archive[CHOOSE n \in Entries(name) : TRUE].body

IsPart(pn, prefix, k, suffix) ==
  pn.prefix = prefix /\ pn.suffix = suffix /\ IsDecimal(pn.num, k)

IsWorksheetRel(r) == r.Target.prefix = "worksheets/sheet"

(* C9: in a written container the parts agree on the sheet identifiers:    *)
(* for position i the workbook declares sheetId i+1 with r:id rId(i+4),    *)
(* the workbook relationships bind rId(i+4) to worksheets/sheet(i+1).xml,  *)
(* the manifest has one override for /xl/worksheets/sheet(i+1).xml, the    *)
(* worksheet is the entry xl/worksheets/sheet(i+1).xml, and rId1..rId3 are *)
(* no worksheet's.                                                         *)
C9_PartsAgreeOnSheetIds ==
  disk.state = "written" =>
    /\ Cardinality(Entries(Fixed("xl/workbook.xml"))) = 1
    /\ Cardinality(Entries(Fixed("xl/_rels/workbook.xml.rels"))) = 1
    /\ Cardinality(Entries(Fixed("[Content_Types].xml"))) = 1
    /\ LET wb == Body(Fixed("xl/workbook.xml")).sheets
           rels == Body(Fixed("xl/_rels/workbook.xml.rels")).rels
           ovr == Body(Fixed("[Content_Types].xml")).overrides
       IN /\ Len(wb) = Len(xlbook)
          /\ \A i \in 1..Len(xlbook) :
               /\ IsDecimal(wb[i].sheetId, (i - 1) + 1)
               /\ IsRId(wb[i].rid, (i - 1) + 4)
               /\ wb[i].name = xlbook[i].name
               /\ Cardinality({n \in 1..Len(rels) : rels[n].Id = wb[i].rid}) = 1
               /\ \A n \in 1..Len(rels) :
                    rels[n].Id = wb[i].rid
                      => IsPart(rels[n].Target, "worksheets/sheet", (i - 1) + 1, ".xml")
               /\ Cardinality({n \in 1..Len(ovr) :
                     IsPart(ovr[n], "/xl/worksheets/sheet", (i - 1) + 1, ".xml")}) = 1
               /\ Cardinality({n \in 1..Len(disk.archive) :
                     IsPart(disk.archive[n].name, "xl/worksheets/sheet",
                            (i - 1) + 1, ".xml")}) = 1
          /\ Cardinality({n \in 1..Len(rels) : IsWorksheetRel(rels[n])}) = Len(xlbook)
          /\ \A n \in 1..Len(rels) :
               IsWorksheetRel(rels[n])
                 => ~(IsRId(rels[n].Id, 1) \/ IsRId(rels[n].Id, 2) \/ IsRId(rels[n].Id, 3))

C9_Witness ==
  /\ disk.state = "written"
  /\ Len(xlbook) = 2
  /\ Body(Fixed("xl/workbook.xml")).sheets[2].rid = <<114, 73, 100, 53>>
  /\ \E n \in 1..Len(disk.archive) :
       disk.archive[n].name = Part("xl/worksheets/sheet", 2, ".xml")

(***************************************************************************)
(* Properties of the reader.                                               *)
(***************************************************************************)
Declared(node, col) ==
  \E n \in 1..Len(node.children) :
    /\ node.children[n].name = "c"
    /\ LetterSum(LettersOf(node.children[n].r)) - 1 = col

(* C10: after a worksheet is read every row has as many cells as the       *)
(* sheet's column count, and every position without a declared cell holds  *)
(* a cell of Empty kind, without payload.                                  *)
C10_RectangularWithEmptyGaps ==
  reader.pc = "read" =>
    /\ \A i \in 1..Len(reader.sheet.row) :
         Len(reader.sheet.row[i]) = reader.sheet.n_cols
    /\ \A i \in 1..Len(reader.xml.rows) : \A col \in 0..(reader.sheet.n_cols - 1) :
         (i <= Len(reader.sheet.row) /\ ~Declared(reader.xml.rows[i], col))
           => reader.sheet.row[i][col + 1] = libo_xl_cell_new

(***************************************************************************)
(* Properties of libo_open.                                                *)
(***************************************************************************)
WorkbookPart == Fixed("xl/workbook.xml")

(* the worksheet parts of the sheets the workbook part declares *)
DeclaredParts(a) ==
  IF ~Parses(a, WorkbookPart) THEN {}
  ELSE {Part("xl/worksheets/sheet", i, ".xml") :
          i \in 1..Len(EntryOf(a, WorkbookPart).body.sheets)}

(* C11: libo_open returns a document only when the workbook part and the   *)
(* worksheet part of every declared sheet are present and parse; with a    *)
(* broken one it returns NULL, never a document whose workbook is missing  *)
(* or one of whose declared sheets was left unread.                        *)
C11_BrokenPartAbortsOpen ==
  opened.pc = "open" =>
    /\ Parses(disk.archive, WorkbookPart)
    /\ ~opened.xl.book_null
    /\ \A part \in DeclaredParts(disk.archive) : Parses(disk.archive, part)

(* C12: a document opened from an archive without xl/sharedStrings.xml has *)
(* a String Table that exists and has no entry.                            *)
C12_AbsentStringsGiveEmptyTable ==
  (opened.pc = "open" /\ ~HasEntry(disk.archive, Fixed("xl/sharedStrings.xml"))) =>
    (~opened.xl.strings_null /\ opened.xl.strings = <<>>)

(* the application name of the archive: "(null)" when docProps/app.xml is  *)
(* absent, is no XML or has no Application element                         *)
ApplicationName(a) ==
  IF HasEntry(a, Fixed("docProps/app.xml")) /\ EntryOf(a, Fixed("docProps/app.xml")).wf
    THEN EntryOf(a, Fixed("docProps/app.xml")).body.Application
    ELSE NULL_NAME

BothMarkers(a) ==
  /\ \E i \in 1..Len(a) : a[i].name = Fixed("docProps/core.xml")
  /\ \E i \in 1..Len(a) : a[i].name = Fixed("docProps/app.xml")

(* C13: once libo_open has returned, it returned a document only if both   *)
(* marker entries are in the archive and the application name is that of   *)
(* the spreadsheet kind, and NULL otherwise; a returned document is of     *)
(* kind spreadsheet and has a spreadsheet body.                            *)
C13_OpenOnlySpreadsheets ==
  /\ opened.pc = "open" =>
       /\ BothMarkers(disk.archive)
       /\ ApplicationName(disk.archive) = "Microsoft Excel"
       /\ opened.type = "xl"
       /\ "xl" \in DOMAIN opened
  /\ (opened.pc # "closed"
        /\ ~(BothMarkers(disk.archive)
               /\ ApplicationName(disk.archive) = "Microsoft Excel")) =>
       opened.pc = "null"

C13_Witness ==
  /\ opened.pc = "open"
  /\ opened.type = "xl"
  /\ Len(disk.archive) = 2

(***************************************************************************)
(* Properties of a write that meets a failure.                             *)
(***************************************************************************)
(* the place of an entry's emission step in the order of libo_xl_write *)
StepOf(name) ==
  IF name = Fixed("[Content_Types].xml") THEN 1
  ELSE IF name \in {Fixed("docProps/app.xml"), Fixed("docProps/core.xml")} THEN 2
  ELSE IF name = Fixed("_rels/.rels") THEN 3
  ELSE IF name = Fixed("xl/_rels/workbook.xml.rels") THEN 4
  ELSE IF name = Fixed("xl/theme/theme1.xml") THEN 5
  ELSE IF name = Fixed("xl/styles.xml") THEN 6
  ELSE IF name = Fixed("xl/workbook.xml") THEN 7
  ELSE IF name = Fixed("xl/sharedStrings.xml") THEN 9
  ELSE 8

(* C14: after a write in which the emission of an entry failed, libo_write *)
(* has returned non-zero and the archive holds no entry of a later step.   *)
C14_FailedStepAbortsWrite ==
  (disk.state = "written" /\ disk.fail # {}) =>
    /\ disk.ret # 0
    /\ \A failed \in disk.fail : \A i \in 1..Len(disk.archive) :
         StepOf(disk.archive[i].name) <= StepOf(failed)

(***************************************************************************)
(* Properties of write followed by open.                                   *)
(***************************************************************************)
(* the workbook has one sheet with one row of n cells, all of type type *)
IsOneRowBook(b, type) ==
  /\ Len(b) = 1
  /\ Len(b[1].row) = 1
  /\ Len(b[1].row[1]) >= 1
  /\ \A k \in 1..Len(b[1].row[1]) : b[1].row[1][k].type = type

(* the opened document has a workbook shaped as b: the same sheets by      *)
(* name, with as many rows, and as many cells in each row                  *)
SameShape(xl, b) ==
  /\ ~xl.book_null
  /\ Len(xl.book) = Len(b)
  /\ \A i \in 1..Len(b) :
       /\ xl.book[i].name = b[i].name
       /\ Len(xl.book[i].row) = Len(b[i].row)
       /\ \A j \in 1..Len(b[i].row) : Len(xl.book[i].row[j]) = Len(b[i].row[j])

(* C15: a workbook of one sheet and one row holding a Number cell of value *)
(* v, written and opened again, gives a sheet of the same name with one    *)
(* row whose single cell is a Number cell of value v.                      *)
C15_NumberRoundTrip ==
  (opened.pc # "closed" /\ IsOneRowBook(xlbook, "number")) =>
    /\ opened.pc = "open"
    /\ SameShape(opened.xl, xlbook)
    /\ opened.xl.book[1].row[1][1].type = "number"
    /\ opened.xl.book[1].row[1][1].number = xlbook[1].row[1][1].number

(* the texts of the Reference cells of a workbook *)
TextsUsed(b, ss) ==
  {strings_find_by_id(ss, b[1].row[1][k].reference).text : k \in 1..Len(b[1].row[1])}

(* C16: a workbook whose cells were given their texts by                   *)
(* libo_xl_cell_set_text, written and opened again, has Reference cells    *)
(* that resolve to the same texts, and the shared-string part written has  *)
(* one entry for each distinct text.                                       *)
C16_TextRoundTrip ==
  (opened.pc # "closed" /\ IsOneRowBook(xlbook, "reference")) =>
    /\ opened.pc = "open"
    /\ SameShape(opened.xl, xlbook)
    /\ ~opened.xl.strings_null
    /\ \A k \in 1..Len(xlbook[1].row[1]) :
         /\ opened.xl.book[1].row[1][k].type = "reference"
         /\ strings_find_by_id(opened.xl.strings,
                               opened.xl.book[1].row[1][k].reference).text
              = strings_find_by_id(strings, xlbook[1].row[1][k].reference).text
    /\ \E i \in 1..Len(disk.archive) :
         /\ disk.archive[i].name = Fixed("xl/sharedStrings.xml")
         /\ Len(disk.archive[i].body.si) = Cardinality(TextsUsed(xlbook, strings))

(***************************************************************************)
(* Properties of the frozen pane of a written worksheet.                   *)
(***************************************************************************)
(* the sheetViews blocks of the worksheet part written for the i-th sheet *)
ViewsOf(i) ==
  LET part == CHOOSE k \in 1..Len(disk.archive) :
                disk.archive[k].name = Part("xl/worksheets/sheet", i, ".xml")
  IN disk.archive[part].body.views

(* C17: the worksheet written for a sheet with a top freeze of count n has *)
(* one frozen pane with a ySplit, the anchor cell "A" followed by n + 1    *)
(* ("A2" for n = 1) and the active pane bottomLeft; the worksheet written  *)
(* for a sheet without freeze has no sheetViews block.                     *)
C17_TopFreezePane ==
  disk.state = "written" =>
    \A i \in 1..Len(xlbook) :
      /\ xlbook[i].freeze.type = "top" =>
           /\ Len(ViewsOf(i)) = 1
           /\ ViewsOf(i)[1].split = "ySplit"
           /\ Len(ViewsOf(i)[1].topLeftCell) >= 2
           /\ ViewsOf(i)[1].topLeftCell[1] = 65
           /\ \A k \in 2..Len(ViewsOf(i)[1].topLeftCell) :
                isdigit(ViewsOf(i)[1].topLeftCell[k])
           /\ IsDecimal(Tail(ViewsOf(i)[1].topLeftCell), xlbook[i].freeze.n + 1)
           /\ (xlbook[i].freeze.n = 1 => ViewsOf(i)[1].topLeftCell = <<65, 50>>)
           /\ ViewsOf(i)[1].activePane = "bottomLeft"
      /\ xlbook[i].freeze.type = "none" => ViewsOf(i) = <<>>

C17_Witness ==
  /\ disk.state = "written"
  /\ Len(xlbook) = 2
  /\ xlbook[1].freeze = [type |-> "top", n |-> 1]
  /\ ViewsOf(1)[1].topLeftCell = <<65, 50>>
  /\ xlbook[2].freeze.type = "none"
  /\ ViewsOf(2) = <<>>

(* C18: the worksheet written for a sheet with a left freeze of count n    *)
(* has one frozen pane with an xSplit, the anchor cell made of the column  *)
(* letter for n and row 1, and the active pane topRight.                   *)
C18_LeftFreezePane ==
  disk.state = "written" =>
    \A i \in 1..Len(xlbook) :
      xlbook[i].freeze.type = "left" =>
        /\ Len(ViewsOf(i)) = 1
        /\ ViewsOf(i)[1].split = "xSplit"
        /\ ViewsOf(i)[1].topLeftCell # <<>>
        /\ ViewsOf(i)[1].topLeftCell = <<65 + xlbook[i].freeze.n, 49>>
        /\ ViewsOf(i)[1].activePane = "topRight"
        /\ ViewsOf(i)[1].activePane # "bottomLeft"

(***************************************************************************)
(* Properties of the accessors.                                            *)
(***************************************************************************)
(* the cell the traversal asked for, when the sheet has it *)
HasCell(sheet, j, k) ==
  j >= 0 /\ j < Len(sheet.row) /\ k >= 0 /\ k < Len(sheet.row[j + 1])

(* C19: whatever row and cell index the traversal asked for, no accessor   *)
(* faulted; for an index outside the sheet each handed back its neutral    *)
(* value, a typed getter on a cell of another type handed back 0 or NULL,  *)
(* and the string value of an Expression cell without formula is its value *)
(* or the empty string.                                                    *)
C19_TraversalIsTotal ==
  reader.pc = "traversed" =>
    /\ ~reader.got.string_value.fault
    /\ ~HasCell(reader.sheet, reader.row, reader.cell) =>
         /\ reader.got.null
         /\ reader.got.type = "none"
         /\ reader.got.reference = 0
         /\ reader.got.number = 0
         /\ reader.got.expression.null
         /\ reader.got.string_value.null
    /\ reader.got.type # "reference" => reader.got.reference = 0
    /\ reader.got.type # "number" => reader.got.number = 0
    /\ reader.got.type # "expression" => reader.got.expression.null
    /\ (reader.got.type = "expression" /\ reader.got.expression.at.formula = 0) =>
         /\ ~reader.got.string_value.null
         /\ reader.got.string_value.text
              = IF reader.got.expression.at.value = 0 THEN <<>>
                ELSE heap[reader.got.expression.at.value].text

(***************************************************************************)
(* Properties of the column count.                                         *)
(***************************************************************************)
(* C20: before any write, the column count of every sheet of the workbook  *)
(* is the largest cell count of its rows (0 for a sheet without rows).     *)
C20_ColumnCountIsWidestRow ==
  disk.state = "none" =>
    \A i \in 1..Len(xlbook) :
      /\ \A j \in 1..Len(xlbook[i].row) :
           libo_xl_row_get_cell_count(Ptr(xlbook[i].row[j]))
             <= libo_xl_sheet_get_column_count(Ptr(xlbook[i]))
      /\ \/ /\ xlbook[i].row = <<>>
            /\ libo_xl_sheet_get_column_count(Ptr(xlbook[i])) = 0
         \/ \E j \in 1..Len(xlbook[i].row) :
              libo_xl_row_get_cell_count(Ptr(xlbook[i].row[j]))
                = libo_xl_sheet_get_column_count(Ptr(xlbook[i]))

(***************************************************************************)
(* C21: after any sequence of set_text, set_number, set_expression,        *)
(* set_type and set_reference on one cell, the cell owns formula and value *)
(* strings only while its kind is Expression, every string it owned before *)
(* has been released exactly once, and no payload field refers to a        *)
(* released string.                                                        *)
(***************************************************************************)
OwnedStrings(c) == {c.formula, c.value} \ {0}

C21_ClearBeforeRetype ==
  /\ ucell.type # "expression" => OwnedStrings(ucell) = {}
  /\ ucell.formula # 0 => ucell.formula # ucell.value
  /\ \A a \in 1..Len(heap) :
       heap[a].frees = IF a \in OwnedStrings(ucell) THEN 0 ELSE 1

(* an Expression cell with both strings was retyped and then made an       *)
(* Expression again: two strings released, two owned                       *)
C21_Witness ==
  /\ ucell.type = "expression"
  /\ Cardinality(OwnedStrings(ucell)) = 2
  /\ Cardinality({a \in 1..Len(heap) : heap[a].frees = 1}) >= 2

(***************************************************************************)
(* C22: during one libo_write the renumbering pass runs exactly once and   *)
(* before the first worksheet part is serialized, no Reference cell id     *)
(* changes after it, and the shared-strings part is emitted after all      *)
(* worksheet parts from the renumbered table, listing the entries in id    *)
(* order with count and uniqueCount both the number of entries.            *)
(***************************************************************************)
SharedStringsPart == Fixed("xl/sharedStrings.xml")

(* the worksheet parts carry the ids the cells hold when the write is over *)
SerializedIdsAreFinal ==
  \A i \in 1..Len(xlbook) :
    /\ Cardinality(Entries(Part("xl/worksheets/sheet", i, ".xml"))) = 1
    /\ \A j \in 1..Len(xlbook[i].row) : \A k \in 1..Len(xlbook[i].row[j]) :
         xlbook[i].row[j][k].type = "reference" =>
           LET node == Body(Part("xl/worksheets/sheet", i, ".xml")).xml.rows[j].children[2 * k]
           IN /\ node.name = "c"
              /\ node.t = <<115>>
              /\ atoi(node.v) = xlbook[i].row[j][k].reference

(* the last entry of the archive is the complete list of the table *)
SharedStringsListTable ==
  /\ disk.archive # <<>>
  /\ disk.archive[Len(disk.archive)].name = SharedStringsPart
  /\ Cardinality(Entries(SharedStringsPart)) = 1
  /\ disk.archive[Len(disk.archive)].wf
  /\ LET sst == disk.archive[Len(disk.archive)].body
     IN /\ atoi(sst.count) = Len(strings)
        /\ atoi(sst.uniqueCount) = Len(strings)
        /\ Len(sst.si) = Len(strings)
        /\ \A m \in 1..Len(sst.si) :
             strings_find_by_text(strings, sst.si[m]) # NoString
        /\ \A m, n \in 1..Len(sst.si) :
             m < n => strings_find_by_text(strings, sst.si[m]).id
                        < strings_find_by_text(strings, sst.si[n]).id

(* the ids and the table the write leaves are those of one pass over the   *)
(* document as it was                                                      *)
OnePassOnly ==
  (disk.state = "none" /\ disk'.state = "written") =>
    /\ strings' = libo_xl_renumber_strings(xlbook, strings).strings
    /\ \A p \in Positions(xlbook) :
         CellAt(xlbook', p).reference
           = CellAt(libo_xl_renumber_strings(xlbook, strings).book, p).reference

C22_RenumberOnceBeforeSheets ==
  /\ [](disk.state = "written" => SerializedIdsAreFinal /\ SharedStringsListTable)
  /\ [][OnePassOnly]_vars

(***************************************************************************)
(* C23: the renumbering pass preserves text: a Reference cell whose id     *)
(* resolves to a text t in the String Table before the pass has, after the *)
(* pass, an id that resolves to the same t in the new table, whatever      *)
(* cells precede it in document order.                                     *)
(***************************************************************************)
RenumberingKeepsText ==
  (disk.state = "none" /\ disk'.state = "written") =>
    \A p \in RefPositions(xlbook) :
      Resolves(strings, CellAt(xlbook, p)) =>
        /\ Resolves(strings', CellAt(xlbook', p))
        /\ TextOf(strings', CellAt(xlbook', p)) = TextOf(strings, CellAt(xlbook, p))

C23_RenumberPreservesText == [][RenumberingKeepsText]_vars

(***************************************************************************)
(* C24: for every cell of every row the writer emits exactly one cell      *)
(* element, properly closed, whose address is the column letters followed  *)
(* by row+1; a Reference cell carries the t="s" marker and its id as       *)
(* value, a Number cell no type marker and its numeric value, and an       *)
(* Expression cell its formula and cached value as child elements.         *)
(***************************************************************************)
WorksheetEntry(i) ==
  disk.archive[CHOOSE n \in Entries(Part("xl/worksheets/sheet", i, ".xml")) : TRUE]

CellElements(children) == {n \in 1..Len(children) : children[n].name = "c"}

(* the element written for the cell: the k-th c element of the row *)
CellElement(children, k) ==
  children[CHOOSE n \in CellElements(children) :
             Cardinality({m \in CellElements(children) : m < n}) = k - 1]

StringAt(a) == IF a = 0 THEN NULL_STR ELSE heap[a].text

CellElementCarries(node, cell, j, k) ==
  /\ cell_ref_to_row_col(node.r).row = j - 1
  /\ cell_ref_to_row_col(node.r).col = k - 1
  /\ LettersOf(node.r) \o DigitsOf(node.r) = node.r
  /\ cell.type = "reference" => node.t = <<115>> /\ atoi(node.v) = cell.reference
  /\ cell.type = "number" => node.t = NULL_STR /\ atof(node.v) = cell.number
  /\ cell.type = "expression" =>
       node.f = StringAt(cell.formula) /\ node.v = StringAt(cell.value)

C24_OneCellElementPerCell ==
  disk.state = "written" =>
    \A i \in 1..Len(xlbook) :
      /\ Cardinality(Entries(Part("xl/worksheets/sheet", i, ".xml"))) = 1
      /\ WorksheetEntry(i).wf
      /\ Len(WorksheetEntry(i).body.xml.rows) = Len(xlbook[i].row)
      /\ \A j \in 1..Len(xlbook[i].row) :
           /\ Cardinality(CellElements(WorksheetEntry(i).body.xml.rows[j].children))
                = Len(xlbook[i].row[j])
           /\ \A k \in 1..Len(xlbook[i].row[j]) :
                CellElementCarries(
                  CellElement(WorksheetEntry(i).body.xml.rows[j].children, k),
                  xlbook[i].row[j][k], j, k)

(***************************************************************************)
(* C25: libo_dup and libo_xl_book_dup produce a faithful deep copy: the    *)
(* copy's workbook has the sheet count of the original, for every          *)
(* position i the copy's i-th sheet exists and has the name, the row count *)
(* and the cell kinds and payloads of the original's i-th sheet, and the   *)
(* copy shares no node with the original.                                  *)
(***************************************************************************)
TextAt(h, a) == IF a = 0 THEN NULL_STR ELSE h[a].text

SamePayload(hc, c, ho, o) ==
  /\ c.type = o.type
  /\ c.type = "reference" => c.reference = o.reference
  /\ c.type = "number" => c.number = o.number
  /\ c.type = "expression" =>
       /\ TextAt(hc, c.formula) = TextAt(ho, o.formula)
       /\ TextAt(hc, c.value) = TextAt(ho, o.value)

SheetIsCopyOf(hc, c, ho, o) ==
  /\ c # UninitSheet
  /\ c.name = o.name
  /\ Len(c.row) = Len(o.row)
  /\ \A j \in 1..Len(o.row) :
       /\ Len(c.row[j]) = Len(o.row[j])
       /\ \A k \in 1..Len(o.row[j]) : SamePayload(hc, c.row[j][k], ho, o.row[j][k])

PointerSet(b) == {BookPointers(b, 1)[n] : n \in 1..Len(BookPointers(b, 1))}

DupIsFaithful ==
  (copy = NoCopy /\ copy' # NoCopy) =>
    /\ Len(copy'.book) = Len(xlbook)
    /\ \A i \in 1..Len(xlbook) : SheetIsCopyOf(heap', copy'.book[i], heap, xlbook[i])
    /\ PointerSet(copy'.book) \cap PointerSet(xlbook') = {}

C25_DupIsFaithfulDeepCopy == [][DupIsFaithful]_vars

(* C26: the sheet that libo_xl_book_add stores carries the name, the rows  *)
(* with their cell payloads, the freeze, the filter and the column         *)
(* attributes of the sheet it was given; only ID and rID are its own.      *)
StoredCarries(hc, c, ho, o) ==
  /\ SheetIsCopyOf(hc, c, ho, o)
  /\ c.freeze = o.freeze
  /\ c.filter = o.filter
  /\ c.column = o.column

C26_BookAddKeepsSheet ==
  [][Len(xlbook') = Len(xlbook) + 1 =>
       StoredCarries(heap', xlbook'[Len(xlbook')], heap, usheet)]_vars

(* C27: a document holds at most one open archive handle and every handle  *)
(* it opened is closed exactly once: a handle that is no longer in l->z    *)
(* has had one zip_close, the handle in l->z none, and when libo_write     *)
(* has returned l->z is NULL.                                              *)
C27_OneHandleClosedOnce ==
  /\ \A k \in 1..Len(zip.handles) :
       zip.handles[k].closes = (IF k = zip.z THEN 0 ELSE 1)
  /\ zip.op = "write" => zip.z = 0

(* C28: at every write each sheet's cols block has one entry for each      *)
(* logical column, n_cols being the length of the widest row, each entry   *)
(* read from an element of the column array that exists and carries the    *)
(* default width 15 with autowidth on; so also at a second write after a   *)
(* wider row was added to a sheet already written.                         *)
ColsOf(i) ==
  LET part == CHOOSE k \in 1..Len(disk.archive) :
                disk.archive[k].name = Part("xl/worksheets/sheet", i, ".xml")
  IN disk.archive[part].body

ColsBlockComplete(sht, body) ==
  /\ body.n_cols = WidestRow(sht.row, 1)
  /\ Len(body.cols.col) = body.n_cols
  /\ ~sht.column.null => Len(sht.column.at) >= body.n_cols
  /\ \A k \in 1..Len(body.cols.col) :
       /\ ~body.cols.col[k].oob
       /\ body.cols.col[k].min = itoa(k)
       /\ body.cols.col[k].max = itoa(k)
       /\ body.cols.col[k].width = sprintf_f(15)
       /\ body.cols.col[k].bestfit = <<49>>

ColsAtWrite ==
  /\ disk.state # "faulted"
  /\ disk.state \in {"written", "rewritten"} =>
       \A i \in 1..Len(xlbook) : ColsBlockComplete(xlbook[i], ColsOf(i))

C28_ColsOnePerColumn ==
  [][disk' # disk => ColsAtWrite']_vars

(* C29: while a worksheet is read no access to row->cell[j], in the        *)
(* backfill loop or in the assignment of a declared cell, has j at or      *)
(* beyond the column count taken from the spans of the first row, also     *)
(* for a cell of a later row whose column is at or beyond that count.      *)
C29_ReaderWithinColumns ==
  reader.pc = "read" => ~reader.oob

(* C30: libo_xl_cell_create(sheet, row, col) with row >= 0 and col >= 0    *)
(* returns the cell and leaves the sheet as it is when the position        *)
(* exists; when it does not, no access goes to the row array at or beyond  *)
(* the rows allocated, and afterwards every row below the row count and    *)
(* every cell below a row's cell count is there.                           *)
PositionExists(sheet, row, col) ==
  row < Len(sheet.row) /\ col < Len(sheet.row[row + 1])

SheetIsWhole(sheet) ==
  \A i \in 1..Len(sheet.row) : \A k \in 1..Len(sheet.row[i]) :
    sheet.row[i][k].type \in CellTypes

CellCreateIsSafe ==
  /\ created'.pc # "faulted"
  /\ ~created'.oob
  /\ SheetIsWhole(usheet')
  /\ PositionExists(usheet, created'.row, created'.col) =>
       /\ usheet' = usheet
       /\ created'.ret = Ptr(usheet.row[created'.row + 1][created'.col + 1])

C30_CellCreateMemorySafe ==
  [][created' # created => CellCreateIsSafe]_vars

====
